---- MODULE Spec2Model ----
(***************************************************************************)
(* A model of the agent coordination layer of bumpkingsol/eigent:         *)
(*   backend/app/component/orchestrator.py    TaskGraph                    *)
(*   backend/app/component/agent_protocol.py  MessageBus                   *)
(*   backend/app/component/checkpoint.py      CheckpointManager            *)
(*   backend/app/component/error_recovery.py  ErrorRecovery                *)
(*   backend/app/component/reflection.py      ReflectionLoop               *)
(*   backend/app/component/model_fallback.py  FallbackChain                *)
(* Python dicts are insertion ordered, so a dict is modelled as a          *)
(* sequence of entries with pairwise distinct keys; Optional[...] values   *)
(* use the sentinel None.                                                  *)
(***************************************************************************)
EXTENDS Integers, Sequences, FiniteSets, TLC

VARIABLES
    nodes,          \* TaskGraph.nodes: the dict id -> TaskNode, in insertion order
    root,           \* TaskGraph.root: Optional[str]
    firstRootless,  \* observer: id of the first add_node argument with empty depends_on
    lastOp,         \* observer: the TaskGraph call made last, with what it found
    wpc,            \* per worker: "idle", "observed" (holds a ready list) or "running"
    observed,       \* per worker: the ids get_ready_tasks returned to it last
    current,        \* per worker: the node it marked Running and is executing
    dispatched,     \* per worker: the nodes it has dispatched, in order
    subscribers,    \* MessageBus._subscribers: the dict agent id -> list of handlers
    pending_responses, \* MessageBus._pending_responses: the correlation ids with a slot
    futures,        \* the asyncio.Future created by each request call, by correlation id
    uuids,          \* how many correlation ids uuid4 has produced
    calls,          \* each request call: its message, where it stands, what it gave back
    inbox,          \* the requests a "keep" handler has put aside to answer later
    responds,       \* observer: per correlation id, the respond calls made for it, in order
    received,       \* observer: the handler invocations of the bus call made last
    lastCall,       \* observer: the bus call made last
    files,          \* the storage directory: file stem -> what the file holds
    now,            \* the wall clock, in seconds
    saves,          \* observer: the save calls made, in order, with what each was given
    lastStore,      \* observer: the CheckpointManager call made last, with its outcome
    max_retries,    \* ErrorRecovery.max_retries
    analysis,       \* observer: the analyze call made last, with its RecoveryResult
    strategies,     \* observer: the strategies a retrying driver was given, in order
    loop,           \* the ReflectionLoop: its max_retries
    reflection,     \* the reflect call: its arguments, its locals, what it returned
    asked,          \* observer: the feedbacks agent.step gave to the reflect call, in order
    produced,       \* observer: the values execute_fn returned to it, in order
    chain,          \* the FallbackChain: models, registry, last_used_provider, last_error
    chain_call      \* observer: the call made last on the chain, and how many were made

gvars == <<nodes, root, firstRootless, lastOp>>

wvars == <<wpc, observed, current, dispatched>>

gwvars == <<gvars, wvars>>

bvars == <<subscribers, pending_responses, futures, uuids, calls, inbox, responds,
           received, lastCall>>

svars == <<files, now, saves, lastStore>>

evars == <<max_retries, analysis, strategies>>

rvars == <<loop, reflection, asked, produced>>

cvars == <<chain, chain_call>>

\* the reflection loop and the fallback chain
lvars == <<rvars, cvars>>

\* the components modelled after the graph and the bus
others == <<svars, evars, lvars>>

vars == <<nodes, root, firstRootless, lastOp, wpc, observed, current, dispatched,
          subscribers, pending_responses, futures, uuids, calls, inbox, responds,
          received, lastCall, files, now, saves, lastStore, max_retries, analysis, strategies,
          loop, reflection, asked, produced, chain, chain_call>>

-----------------------------------------------------------------------------
(* Bounds and input sets                                                   *)

\* longest depends_on list handed to add_node
MaxDeps == 2

\* the ids of the tasks of a plan, in the order a decomposer numbers them
IdOrder == <<"1", "2", "3">>

NodeIds == {IdOrder[i] : i \in DOMAIN IdOrder}

Workers == {"w1", "w2"}

\* registrations a bus holds at most
MaxSubs == 3

\* request calls made on one bus
MaxRequests == 2

\* respond calls observed per correlation id
MaxResponds == 2

\* handlers subscribed for the responder before the requests start
MaxHandlers == 2

AgentIds == {"agent_a", "agent_b", "orchestrator"}

\* an id no add_node call ever uses
AbsentId == "9"

Contents == {"task"}

AgentTags == {"developer"}

Results == {"r1", "r2"}

None == "<None>"

-----------------------------------------------------------------------------
(* orchestrator.py: TaskStatus, TaskNode                                   *)

PENDING == "pending"

RUNNING == "running"

COMPLETED == "completed"

FAILED == "failed"

TaskStatus == {PENDING, RUNNING, COMPLETED, FAILED}

\* TaskNode(id, content, agent, depends_on) with the dataclass defaults
TaskNode(id, content, agent, depends_on) ==
    [id |-> id, content |-> content, agent |-> agent, depends_on |-> depends_on,
     status |-> PENDING, result |-> None]

-----------------------------------------------------------------------------
(* dict helpers: a dict is a sequence of values carrying their key in .id  *)

DictKeys(d) == {d[i].id : i \in DOMAIN d}

DictHas(d, k) == \E i \in DOMAIN d : d[i].id = k

DictIndex(d, k) == CHOOSE i \in DOMAIN d : d[i].id = k

DictGet(d, k) == d[DictIndex(d, k)]

\* d[k] = v: an existing key keeps its position, a new key goes last
DictPut(d, v) ==
    IF DictHas(d, v.id) THEN [d EXCEPT ![DictIndex(d, v.id)] = v] ELSE Append(d, v)

-----------------------------------------------------------------------------
(* orchestrator.py: TaskGraph                                              *)

\* TaskGraph.__init__
EmptyGraph == [nodes |-> <<>>, root |-> None]

\* add_node without the "root is None" test: the latest rootless node becomes root
add_node_reassigns_root(g, node) ==
    LET stored == [g EXCEPT !.nodes = DictPut(g.nodes, node)]
    IN  IF node.depends_on = <<>> THEN [stored EXCEPT !.root = node.id] ELSE stored

\* TaskGraph.add_node
add_node(g, node) ==
    LET stored == [g EXCEPT !.nodes = DictPut(g.nodes, node)]
    IN  IF node.depends_on = <<>> /\ g.root = None
        THEN [stored EXCEPT !.root = node.id]
        ELSE stored

\* all(self.nodes[dep_id].status == COMPLETED for dep_id in depends_on if dep_id in self.nodes),
\* evaluated left to right from position i
RECURSIVE all_completed_from(_, _, _)
all_completed_from(g, depends_on, i) ==
    IF i > Len(depends_on) THEN TRUE
    ELSE IF ~DictHas(g.nodes, depends_on[i]) THEN all_completed_from(g, depends_on, i + 1)
    ELSE IF DictGet(g.nodes, depends_on[i]).status = COMPLETED
         THEN all_completed_from(g, depends_on, i + 1)
         ELSE FALSE

\* deps_satisfied that stops at the first Completed dependency: one is enough
deps_satisfied_any(g, node) ==
    \/ node.depends_on = <<>>
    \/ \E i \in DOMAIN node.depends_on :
          /\ DictHas(g.nodes, node.depends_on[i])
          /\ DictGet(g.nodes, node.depends_on[i]).status = COMPLETED

\* deps_satisfied without the "if dep_id in self.nodes" filter: an absent dependency blocks
deps_satisfied_absent_blocks(g, node) ==
    \A i \in DOMAIN node.depends_on :
        /\ DictHas(g.nodes, node.depends_on[i])
        /\ DictGet(g.nodes, node.depends_on[i]).status = COMPLETED

\* deps_satisfied that lets a dependency count as soon as it was started
deps_satisfied_once_started(g, node) ==
    \A i \in DOMAIN node.depends_on :
        /\ DictHas(g.nodes, node.depends_on[i])
        /\ DictGet(g.nodes, node.depends_on[i]).status # PENDING

\* deps_satisfied = all(dep in self.nodes and its status is COMPLETED)
deps_satisfied(g, node) == all_completed_from(g, node.depends_on, 1)

\* the loop of get_ready_tasks over self.nodes.values(), from position i
RECURSIVE ready_from(_, _, _)
ready_from(g, i, ready) ==
    IF i > Len(g.nodes) THEN ready
    ELSE LET node == g.nodes[i]
         IN  IF node.status # PENDING THEN ready_from(g, i + 1, ready)
             ELSE IF deps_satisfied(g, node) THEN ready_from(g, i + 1, Append(ready, node))
             ELSE ready_from(g, i + 1, ready)

\* get_ready_tasks that returns only the Pending nodes without dependencies
get_ready_tasks_roots_only(g) ==
    SelectSeq(ready_from(g, 1, <<>>), LAMBDA node : node.depends_on = <<>>)

\* TaskGraph.get_ready_tasks: the list of ready TaskNodes
get_ready_tasks(g) == ready_from(g, 1, <<>>)

\* mark_complete that keeps the result of a node that is already Completed
mark_complete_first_wins(g, node_id, result) ==
    IF DictHas(g.nodes, node_id) /\ DictGet(g.nodes, node_id).status # COMPLETED
    THEN [g EXCEPT !.nodes[DictIndex(g.nodes, node_id)].status = COMPLETED,
                   !.nodes[DictIndex(g.nodes, node_id)].result = result]
    ELSE g

\* TaskGraph.mark_complete
mark_complete(g, node_id, result) ==
    IF DictHas(g.nodes, node_id)
    THEN [g EXCEPT !.nodes[DictIndex(g.nodes, node_id)].status = COMPLETED,
                   !.nodes[DictIndex(g.nodes, node_id)].result = result]
    ELSE g

\* mark_running that finds the node and leaves its status alone
mark_running_no_effect(g, node_id) == g

\* TaskGraph.mark_running
mark_running(g, node_id) ==
    IF DictHas(g.nodes, node_id)
    THEN [g EXCEPT !.nodes[DictIndex(g.nodes, node_id)].status = RUNNING]
    ELSE g

\* mark_failed that only takes a node out of Running
mark_failed_from_running(g, node_id) ==
    IF DictHas(g.nodes, node_id) /\ DictGet(g.nodes, node_id).status = RUNNING
    THEN [g EXCEPT !.nodes[DictIndex(g.nodes, node_id)].status = FAILED]
    ELSE g

\* mark_failed that also forgets the node's result
mark_failed_clears_result(g, node_id) ==
    IF DictHas(g.nodes, node_id)
    THEN [g EXCEPT !.nodes[DictIndex(g.nodes, node_id)].status = FAILED,
                   !.nodes[DictIndex(g.nodes, node_id)].result = None]
    ELSE g

\* TaskGraph.mark_failed
mark_failed(g, node_id) ==
    IF DictHas(g.nodes, node_id)
    THEN [g EXCEPT !.nodes[DictIndex(g.nodes, node_id)].status = FAILED]
    ELSE g

-----------------------------------------------------------------------------
(* The graph as a state machine: any caller, any call                     *)

Graph == [nodes |-> nodes, root |-> root]

SetGraph(g) == nodes' = g.nodes /\ root' = g.root

\* the ids of S as a list in IdOrder
IdList(S) == SelectSeq(IdOrder, LAMBDA id : id \in S)

\* every depends_on list of at most MaxDeps distinct ids, in IdOrder
DepLists == {IdList(S) : S \in {T \in SUBSET NodeIds : Cardinality(T) <= MaxDeps}}

\* the depends_on lists the free-running graph is fed: [], ["1"], ["1", "2"], ...
DepChoices == {SubSeq(IdOrder, 1, k) : k \in 0..MaxDeps} \cap DepLists

\* the TaskNodes a caller constructs and hands to add_node
NewNodes ==
    {TaskNode(id, c, a, d) : id \in NodeIds, c \in Contents, a \in AgentTags, d \in DepChoices}

\* what a call found at node_id before it acted: <<status, result>>, or <<>> if absent
Before(node_id) ==
    IF DictHas(nodes, node_id)
    THEN <<DictGet(nodes, node_id).status, DictGet(nodes, node_id).result>>
    ELSE <<>>

NoOp == [op |-> "none", id |-> None, result |-> None, before |-> <<>>]

NoCid == 0

Cids == 1..MaxRequests

\* a Future nobody has created yet
NoFuture == [state |-> "none", result |-> <<>>]

NoCall == [kind |-> "none", message |-> <<>>, raised |-> FALSE, errors |-> 0]

\* a request call that has not been made
NoRequest == [pc |-> "none", message |-> <<>>, response |-> <<>>, error |-> None]

\* bus = MessageBus(), with nothing subscribed and nothing sent
BusIdle ==
    /\ subscribers = <<>>
    /\ pending_responses = {}
    /\ futures = [c \in Cids |-> NoFuture]
    /\ uuids = 0
    /\ calls = [c \in Cids |-> NoRequest]
    /\ inbox = {}
    /\ responds = [c \in Cids |-> <<>>]
    /\ received = <<>>
    /\ lastCall = NoCall

WorkersIdle ==
    /\ wpc = [w \in Workers |-> "idle"]
    /\ observed = [w \in Workers |-> <<>>]
    /\ current = [w \in Workers |-> None]
    /\ dispatched = [w \in Workers |-> <<>>]

\* no CheckpointManager call made yet
NoStoreCall ==
    [op |-> "none", id |-> <<>>, task_id |-> <<>>, before |-> <<>>, returned |-> <<>>,
     removed |-> FALSE, loaded |-> <<>>, listing |-> <<>>, error |-> None]

\* manager = CheckpointManager(storage_path) on an empty directory
StoreIdle ==
    /\ files = <<>>
    /\ now = 0
    /\ saves = <<>>
    /\ lastStore = NoStoreCall

\* ErrorRecovery.__init__: max_retries: int = 3
DefaultMaxRetries == 3

\* no analyze call made yet
NoAnalysis == [error |-> <<>>, task_content |-> <<>>, attempt_count |-> 0, result |-> <<>>]

\* recovery = ErrorRecovery()
RecoveryIdle ==
    /\ max_retries = DefaultMaxRetries
    /\ analysis = NoAnalysis
    /\ strategies = <<>>

\* ReflectionLoop.__init__: max_retries: int = 3
DefaultReflectRetries == 3

\* no reflect call made yet
NoReflect ==
    [pc |-> "none", result |-> None, execute_fn |-> FALSE, retry |-> 0, called |-> FALSE,
     current_result |-> None, feedback_history |-> <<>>, returned |-> <<>>]

\* loop = ReflectionLoop()
ReflectionIdle ==
    /\ loop = [max_retries |-> DefaultReflectRetries]
    /\ reflection = NoReflect
    /\ asked = <<>>
    /\ produced = <<>>

\* no call made on the chain yet
NoChainCall ==
    [count |-> 0, prompt |-> None, before |-> <<>>, attempts |-> <<>>, returned |-> <<>>,
     raised |-> <<>>]

\* chain = FallbackChain([]): no registry, last_used_provider and last_error None; an
\* Optional[Exception] is <<>> for None and <<e>> for an exception
ChainIdle ==
    /\ chain = [models |-> <<>>, registry |-> None, last_used_provider |-> None,
                last_error |-> <<>>]
    /\ chain_call = NoChainCall

LaterIdle == ReflectionIdle /\ ChainIdle

OthersIdle == StoreIdle /\ RecoveryIdle /\ LaterIdle

\* the observer's record of a call
Call(op, node_id, result) ==
    [op |-> op, id |-> node_id, result |-> result, before |-> Before(node_id)]

\* graph.add_node(node)
AddNode(node) ==
    /\ SetGraph(add_node(Graph, node))
    /\ firstRootless' =
          IF firstRootless = None /\ Len(node.depends_on) = 0 THEN node.id ELSE firstRootless
    /\ UNCHANGED wvars

\* graph.mark_running(node_id)
MarkRunning(node_id) ==
    /\ SetGraph(mark_running(Graph, node_id))
    /\ UNCHANGED <<firstRootless, wvars>>

\* graph.mark_complete(node_id, result)
MarkComplete(node_id, result) ==
    /\ SetGraph(mark_complete(Graph, node_id, result))
    /\ UNCHANGED <<firstRootless, wvars>>

\* graph.mark_failed(node_id)
MarkFailed(node_id) ==
    /\ SetGraph(mark_failed(Graph, node_id))
    /\ UNCHANGED <<firstRootless, wvars>>

\* graph = TaskGraph(), no worker started
GraphIdle ==
    /\ nodes = EmptyGraph.nodes
    /\ root = EmptyGraph.root
    /\ firstRootless = None
    /\ lastOp = NoOp
    /\ WorkersIdle

InitGraph == GraphIdle /\ BusIdle /\ OthersIdle

\* any sequence of add_node and mark_* calls (mark_complete with its default result)
NextGraph ==
    /\ UNCHANGED <<bvars, others>>
    /\ \/ \E node \in NewNodes : AddNode(node) /\ UNCHANGED lastOp
       \/ \E id \in NodeIds : MarkRunning(id) /\ UNCHANGED lastOp
       \/ \E id \in NodeIds : MarkComplete(id, None) /\ UNCHANGED lastOp
       \/ \E id \in NodeIds : MarkFailed(id) /\ UNCHANGED lastOp

SpecGraph == InitGraph /\ [][NextGraph]_vars

-----------------------------------------------------------------------------
(* The status setters on the graph of test_orchestrator_identifies_dependencies, *)
(* each call observed                                                       *)

\* the graph of tests/test_orchestrator.py: "2" and "3" depend on "1"
TestGraph ==
    add_node(add_node(add_node(EmptyGraph,
        TaskNode("1", "task", "developer", <<>>)),
        TaskNode("2", "task", "developer", <<"1">>)),
        TaskNode("3", "task", "developer", <<"1">>))

InitMarks ==
    /\ nodes = TestGraph.nodes
    /\ root = TestGraph.root
    /\ firstRootless = "1"
    /\ lastOp = NoOp
    /\ WorkersIdle
    /\ BusIdle
    /\ OthersIdle

MarkIds == NodeIds \cup {AbsentId}

NextMarks ==
    /\ UNCHANGED <<bvars, others>>
    /\ \/ \E id \in MarkIds : MarkRunning(id) /\ lastOp' = Call("mark_running", id, None)
       \/ \E id \in MarkIds, r \in Results \cup {None} :
             MarkComplete(id, r) /\ lastOp' = Call("mark_complete", id, r)
       \/ \E id \in MarkIds : MarkFailed(id) /\ lastOp' = Call("mark_failed", id, None)

SpecMarks == InitMarks /\ [][NextMarks]_vars

-----------------------------------------------------------------------------
(* Workers driving a graph: each asks get_ready_tasks, then, as a separate  *)
(* step, marks one returned node Running and executes it, then marks it    *)
(* Completed or Failed. Nothing in TaskGraph ties the steps together.      *)

Ids(tasks) == [i \in DOMAIN tasks |-> tasks[i].id]

\* ready = graph.get_ready_tasks()
Observe(w) ==
    /\ wpc[w] = "idle"
    /\ observed' = [observed EXCEPT ![w] = Ids(get_ready_tasks(Graph))]
    /\ wpc' = [wpc EXCEPT ![w] = "observed"]
    /\ UNCHANGED <<gvars, current, dispatched>>

\* nothing was ready: the worker asks again later
NothingReady(w) ==
    /\ wpc[w] = "observed"
    /\ observed[w] = <<>>
    /\ wpc' = [wpc EXCEPT ![w] = "idle"]
    /\ UNCHANGED <<gvars, observed, current, dispatched>>

\* graph.mark_running(ready[i].id), then the task is handed to an agent
Dispatch(w, i) ==
    /\ wpc[w] = "observed"
    /\ i \in DOMAIN observed[w]
    /\ SetGraph(mark_running(Graph, observed[w][i]))
    /\ current' = [current EXCEPT ![w] = observed[w][i]]
    /\ dispatched' = [dispatched EXCEPT ![w] = Append(@, observed[w][i])]
    /\ wpc' = [wpc EXCEPT ![w] = "running"]
    /\ UNCHANGED <<firstRootless, lastOp, observed>>

\* the task ended well: graph.mark_complete(id, result)
FinishComplete(w, result) ==
    /\ wpc[w] = "running"
    /\ SetGraph(mark_complete(Graph, current[w], result))
    /\ current' = [current EXCEPT ![w] = None]
    /\ wpc' = [wpc EXCEPT ![w] = "idle"]
    /\ UNCHANGED <<firstRootless, lastOp, observed, dispatched>>

\* the task ended badly: graph.mark_failed(id)
FinishFailed(w) ==
    /\ wpc[w] = "running"
    /\ SetGraph(mark_failed(Graph, current[w]))
    /\ current' = [current EXCEPT ![w] = None]
    /\ wpc' = [wpc EXCEPT ![w] = "idle"]
    /\ UNCHANGED <<firstRootless, lastOp, observed, dispatched>>

WorkerStep(w) ==
    /\ UNCHANGED <<bvars, others>>
    /\ \/ Observe(w)
       \/ NothingReady(w)
       \/ \E i \in 1..Len(IdOrder) : Dispatch(w, i)
       \/ \E r \in Results : FinishComplete(w, r)
       \/ FinishFailed(w)

\* two workers on the graph of test_orchestrator_identifies_dependencies
NextWorkers == \E w \in Workers : WorkerStep(w)

SpecWorkers == InitMarks /\ [][NextWorkers]_vars

\* the first node of a list of TaskNodes that has no dependencies
RECURSIVE FirstRootless(_, _)
FirstRootless(added, i) ==
    IF i > Len(added) THEN None
    ELSE IF added[i].depends_on = <<>> THEN added[i].id
    ELSE FirstRootless(added, i + 1)

\* graph = TaskGraph(); for node in added: graph.add_node(node)
RECURSIVE Build(_, _)
Build(added, n) ==
    IF n = 0 THEN EmptyGraph ELSE add_node(Build(added, n - 1), added[n])

\* a plan of one node per id, each with any depends_on list: chains, forks, cycles
Plans ==
    {[i \in DOMAIN IdOrder |-> TaskNode(IdOrder[i], "task", "developer", deps[i])] :
        deps \in [DOMAIN IdOrder -> DepLists]}

InitDriver ==
    /\ \E plan \in Plans :
          /\ nodes = Build(plan, Len(plan)).nodes
          /\ root = Build(plan, Len(plan)).root
          /\ firstRootless = FirstRootless(plan, 1)
    /\ lastOp = NoOp
    /\ WorkersIdle
    /\ BusIdle
    /\ OthersIdle

\* one driver on any plan
NextDriver == WorkerStep("w1")

SpecDriver == InitDriver /\ [][NextDriver]_vars

-----------------------------------------------------------------------------
(* agent_protocol.py: MessageType, AgentMessage, handlers                  *)

REQUEST == "request"

RESPONSE == "response"

INFO == "info"

ERROR == "error"

\* AgentMessage(sender, recipient, message_type, content), correlation_id = None
AgentMessage(sender, recipient, message_type, content) ==
    [sender |-> sender, recipient |-> recipient, message_type |-> message_type,
     content |-> content, correlation_id |-> NoCid]

\* The handlers of tests/test_agent_protocol.py, by what they do with a message:
\*   "rec"   appends it to a list (handler, handler_a, safe_handler)
\*   "crash" raises ValueError (crashing_handler)
\*   "echo"  answers a request at once with respond (echo_handler)
\*   "keep"  puts a request aside; its agent answers later with respond
Handlers == {"rec", "crash", "echo", "keep"}

\* f"Echo: {msg.content}"
Echo(content) == <<"Echo: ">> \o content

\* The bus and what its handlers touch, as one value:
\*   subscribers, pending_responses, futures: the MessageBus fields and the Futures
\*   inbox: the messages "keep" handlers hold
\*   responds: the observer's list of respond calls
\*   log: the handler invocations of the call under way; errors: its logger.exception calls
Bus ==
    [subscribers |-> subscribers, pending_responses |-> pending_responses,
     futures |-> futures, inbox |-> inbox, responds |-> responds,
     log |-> <<>>, errors |-> 0]

\* self._subscribers.get(agent_id, [])
HandlersOf(subs, agent_id) ==
    IF DictHas(subs, agent_id) THEN DictGet(subs, agent_id).handlers ELSE <<>>

\* MessageBus.subscribe
subscribe(b, agent_id, handler) ==
    LET created == IF DictHas(b.subscribers, agent_id) THEN b.subscribers
                   ELSE Append(b.subscribers, [id |-> agent_id, handlers |-> <<>>])
    IN  [b EXCEPT !.subscribers =
            [created EXCEPT ![DictIndex(created, agent_id)].handlers = Append(@, handler)]]

\* MessageBus.unsubscribe: self._subscribers.pop(agent_id, None)
unsubscribe(b, agent_id) ==
    [b EXCEPT !.subscribers = SelectSeq(b.subscribers, LAMBDA e : e.id # agent_id)]

\* respond that builds the Response without swapping sender and recipient
respond_unswapped(b, original, response_content) ==
    LET cid == original.correlation_id
    IN  IF cid # NoCid /\ cid \in b.pending_responses /\ b.futures[cid].state = "pending"
        THEN [b EXCEPT !.futures[cid] =
                 [state |-> "done",
                  result |-> <<[sender |-> original.sender,
                                recipient |-> original.recipient,
                                message_type |-> RESPONSE,
                                content |-> response_content,
                                correlation_id |-> cid]>>]]
        ELSE b

\* respond without the "if not future.done()" test: a later respond replaces the result
respond_overwrites(b, original, response_content) ==
    LET cid == original.correlation_id
    IN  IF cid # NoCid /\ cid \in b.pending_responses
        THEN [b EXCEPT !.futures[cid] =
                 [state |-> "done",
                  result |-> <<[sender |-> original.recipient,
                                recipient |-> original.sender,
                                message_type |-> RESPONSE,
                                content |-> response_content,
                                correlation_id |-> cid]>>]]
        ELSE b

\* respond without the "in self._pending_responses" test: the Future made for the
\* correlation id is resolved even after its slot was popped
respond_unregistered(b, original, response_content) ==
    LET cid == original.correlation_id
    IN  IF cid # NoCid
        THEN [b EXCEPT !.futures[cid] =
                 [state |-> "done",
                  result |-> <<[sender |-> original.recipient,
                                recipient |-> original.sender,
                                message_type |-> RESPONSE,
                                content |-> response_content,
                                correlation_id |-> cid]>>]]
        ELSE b

\* respond that resolves the oldest unresolved slot, whatever request the original was
respond_first_pending(b, original, response_content) ==
    LET open == {c \in b.pending_responses : b.futures[c].state = "pending"}
        cid == CHOOSE c \in open : \A d \in open : c <= d
    IN  IF original.correlation_id # NoCid /\ open # {}
        THEN [b EXCEPT !.futures[cid] =
                 [state |-> "done",
                  result |-> <<[sender |-> original.recipient,
                                recipient |-> original.sender,
                                message_type |-> RESPONSE,
                                content |-> response_content,
                                correlation_id |-> cid]>>]]
        ELSE b

\* MessageBus.respond
respond(b, original, response_content) ==
    LET cid == original.correlation_id
    IN  IF cid # NoCid /\ cid \in b.pending_responses
        THEN IF b.futures[cid].state = "pending"
             THEN [b EXCEPT !.futures[cid] =
                      [state |-> "done",
                       result |-> <<[sender |-> original.recipient,
                                     recipient |-> original.sender,
                                     message_type |-> RESPONSE,
                                     content |-> response_content,
                                     correlation_id |-> cid]>>]]
             ELSE b
        ELSE b

\* a respond call as the observer sees it: noted under the correlation id it names
respond_call(b, original, response_content) ==
    LET cid == original.correlation_id
        noted == IF cid \in Cids
                 THEN [b EXCEPT !.responds[cid] =
                          Append(@, [content |-> response_content,
                                     slot |-> cid \in b.pending_responses])]
                 ELSE b
    IN  respond(noted, original, response_content)

\* await handler(message): the bus after it, and whether the handler raised
invoke(b, agent_id, handler, message) ==
    LET called == [b EXCEPT !.log =
                      Append(@, [agent |-> agent_id, handler |-> handler, message |-> message])]
    IN  CASE handler = "crash" -> [bus |-> called, raised |-> TRUE]
          [] handler = "echo" ->
                [bus |-> IF message.message_type = REQUEST
                         THEN respond_call(called, message, Echo(message.content))
                         ELSE called,
                 raised |-> FALSE]
          [] handler = "keep" ->
                [bus |-> [called EXCEPT !.inbox = @ \cup {message}], raised |-> FALSE]
          [] OTHER -> [bus |-> called, raised |-> FALSE]

\* the handler loop without its try/except: the first failure ends the loop and
\* reaches the caller
RECURSIVE deliver_unguarded(_, _, _, _, _)
deliver_unguarded(b, agent_id, handlers, i, message) ==
    IF i > Len(handlers) THEN [bus |-> b, raised |-> FALSE]
    ELSE LET r == invoke(b, agent_id, handlers[i], message)
         IN  IF r.raised THEN r
             ELSE deliver_unguarded(r.bus, agent_id, handlers, i + 1, message)

\* the handler loop started at the second handler of the list
RECURSIVE deliver_skips_first(_, _, _, _, _)
deliver_skips_first(b, agent_id, handlers, i, message) ==
    IF i + 1 > Len(handlers) THEN [bus |-> b, raised |-> FALSE]
    ELSE LET r == invoke(b, agent_id, handlers[i + 1], message)
         IN  deliver_skips_first(IF r.raised THEN [r.bus EXCEPT !.errors = @ + 1] ELSE r.bus,
                                 agent_id, handlers, i + 1, message)

\* for handler in handlers: try: await handler(message) / except Exception: logger.exception
\* from position i: the bus after it, and whether a failure reached the caller
RECURSIVE deliver(_, _, _, _, _)
deliver(b, agent_id, handlers, i, message) ==
    IF i > Len(handlers) THEN [bus |-> b, raised |-> FALSE]
    ELSE LET r == invoke(b, agent_id, handlers[i], message)
         IN  IF r.raised
             THEN deliver([r.bus EXCEPT !.errors = @ + 1], agent_id, handlers, i + 1, message)
             ELSE deliver(r.bus, agent_id, handlers, i + 1, message)

\* MessageBus.send
send(b, message) ==
    deliver(b, message.recipient, HandlersOf(b.subscribers, message.recipient), 1, message)

\* broadcast without the "agent_id != message.sender" test
RECURSIVE broadcast_to_everyone(_, _, _)
broadcast_to_everyone(b, k, message) ==
    IF k > Len(b.subscribers) THEN [bus |-> b, raised |-> FALSE]
    ELSE LET entry == b.subscribers[k]
             r == deliver(b, entry.id, entry.handlers, 1, message)
         IN  IF r.raised THEN r ELSE broadcast_to_everyone(r.bus, k + 1, message)

\* the loop of broadcast over self._subscribers.items(), from entry k
RECURSIVE broadcast_from(_, _, _)
broadcast_from(b, k, message) ==
    IF k > Len(b.subscribers) THEN [bus |-> b, raised |-> FALSE]
    ELSE LET entry == b.subscribers[k]
         IN  IF entry.id # message.sender
             THEN LET r == deliver(b, entry.id, entry.handlers, 1, message)
                  IN  IF r.raised THEN r ELSE broadcast_from(r.bus, k + 1, message)
             ELSE broadcast_from(b, k + 1, message)

\* MessageBus.broadcast
broadcast(b, message) == broadcast_from(b, 1, message)

\* request that goes to its wait without sending the message
request_send_without_send(b, message, cid) ==
    [bus |-> [b EXCEPT !.futures[cid] = [state |-> "pending", result |-> <<>>],
                       !.pending_responses = @ \cup {cid}],
     raised |-> FALSE]

\* request up to its wait: the correlation id is attached, the Future created and
\* registered, the message sent
request_send(b, message, cid) ==
    LET sent == [message EXCEPT !.correlation_id = cid]
        registered == [b EXCEPT !.futures[cid] = [state |-> "pending", result |-> <<>>],
                                !.pending_responses = @ \cup {cid}]
    IN  send(registered, sent)

\* request without its finally clause: the slot stays in the registry
request_exit_keeps_slot(b, cid) ==
    IF b.futures[cid].state = "done"
    THEN [bus |-> b, response |-> b.futures[cid].result, error |-> None]
    ELSE [bus |-> [b EXCEPT !.futures[cid].state = "cancelled"],
          response |-> <<>>, error |-> "TimeoutError"]

\* request that swallows the timeout: the caller gets None and no failure
request_exit_swallows_timeout(b, cid) ==
    IF b.futures[cid].state = "done"
    THEN [bus |-> [b EXCEPT !.pending_responses = @ \ {cid}],
          response |-> b.futures[cid].result, error |-> None]
    ELSE [bus |-> [b EXCEPT !.futures[cid].state = "cancelled",
                            !.pending_responses = @ \ {cid}],
          response |-> <<>>, error |-> None]

\* request from its wait on: asyncio.wait_for gives the Future's result, or, the timeout
\* elapsed with the Future unresolved, cancels it and raises TimeoutError; the finally
\* clause pops the slot
request_exit(b, cid) ==
    IF b.futures[cid].state = "done"
    THEN [bus |-> [b EXCEPT !.pending_responses = @ \ {cid}],
          response |-> b.futures[cid].result, error |-> None]
    ELSE [bus |-> [b EXCEPT !.futures[cid].state = "cancelled",
                            !.pending_responses = @ \ {cid}],
          response |-> <<>>, error |-> "TimeoutError"]

-----------------------------------------------------------------------------
(* The bus as a state machine                                              *)

SetBus(b) ==
    /\ subscribers' = b.subscribers
    /\ pending_responses' = b.pending_responses
    /\ futures' = b.futures
    /\ inbox' = b.inbox
    /\ responds' = b.responds

\* how many handler registrations the bus holds
RECURSIVE Registrations(_, _)
Registrations(subs, k) ==
    IF k > Len(subs) THEN 0 ELSE Len(subs[k].handlers) + Registrations(subs, k + 1)

\* bus.subscribe(agent_id, handler)
Subscribe(agent_id, handler) ==
    /\ Registrations(subscribers, 1) < MaxSubs
    /\ SetBus(subscribe(Bus, agent_id, handler))
    /\ received' = <<>>
    /\ lastCall' = NoCall
    /\ UNCHANGED <<uuids, calls>>

\* bus.unsubscribe(agent_id)
Unsubscribe(agent_id) ==
    /\ SetBus(unsubscribe(Bus, agent_id))
    /\ received' = <<>>
    /\ lastCall' = NoCall
    /\ UNCHANGED <<uuids, calls>>

\* await bus.send(message)
Send(message) ==
    /\ LET r == send(Bus, message)
       IN  /\ SetBus(r.bus)
           /\ received' = r.bus.log
           /\ lastCall' = [kind |-> "send", message |-> <<message>>, raised |-> r.raised,
                           errors |-> r.bus.errors]
    /\ UNCHANGED <<uuids, calls>>

\* await bus.broadcast(message)
Broadcast(message) ==
    /\ LET r == broadcast(Bus, message)
       IN  /\ SetBus(r.bus)
           /\ received' = r.bus.log
           /\ lastCall' = [kind |-> "broadcast", message |-> <<message>>, raised |-> r.raised,
                           errors |-> r.bus.errors]
    /\ UNCHANGED <<uuids, calls>>

\* await bus.request(message, timeout), up to the point where it suspends or returns:
\* a Future resolved while the message was being sent is returned without a wait
Request(message) ==
    /\ uuids < MaxRequests
    /\ LET cid == uuids + 1
           r == request_send(Bus, message, cid)
           sent == [message EXCEPT !.correlation_id = cid]
           x == request_exit(r.bus, cid)
       IN  /\ uuids' = cid
           /\ received' = r.bus.log
           /\ lastCall' = [kind |-> "request", message |-> <<sent>>, raised |-> r.raised,
                           errors |-> r.bus.errors]
           /\ IF r.raised \/ r.bus.futures[cid].state = "done"
              THEN /\ SetBus(x.bus)
                   /\ calls' = [calls EXCEPT ![cid] =
                        [pc |-> IF r.raised THEN "failed" ELSE "returned", message |-> <<sent>>,
                         response |-> IF r.raised THEN <<>> ELSE x.response, error |-> None]]
              ELSE /\ SetBus(r.bus)
                   /\ calls' = [calls EXCEPT ![cid] =
                        [pc |-> "waiting", message |-> <<sent>>, response |-> <<>>,
                         error |-> None]]

\* the waiting request wakes up with the response
RequestReturn(cid) ==
    /\ calls[cid].pc = "waiting"
    /\ futures[cid].state = "done"
    /\ LET x == request_exit(Bus, cid)
       IN  /\ SetBus(x.bus)
           /\ calls' = [calls EXCEPT ![cid].pc = "returned", ![cid].response = x.response]
    /\ UNCHANGED <<uuids, received, lastCall>>

\* the timeout of the waiting request elapses
RequestTimeout(cid) ==
    /\ calls[cid].pc = "waiting"
    /\ futures[cid].state = "pending"
    /\ LET x == request_exit(Bus, cid)
       IN  /\ SetBus(x.bus)
           /\ calls' = [calls EXCEPT ![cid].pc = "timeout", ![cid].error = x.error]
    /\ UNCHANGED <<uuids, received, lastCall>>

\* await bus.respond(original, response_content), by an agent outside any handler
Respond(original, response_content) ==
    /\ original.correlation_id \in Cids => Len(responds[original.correlation_id]) < MaxResponds
    /\ SetBus(respond_call(Bus, original, response_content))
    /\ received' = <<>>
    /\ lastCall' = [kind |-> "respond", message |-> <<original>>, raised |-> FALSE, errors |-> 0]
    /\ UNCHANGED <<uuids, calls>>

MsgContents == {<<"Hello">>}

\* the messages callers send and broadcast: recipient "*" is the broadcast wildcard
InfoMessages ==
    {AgentMessage(s, r, INFO, c) : s \in AgentIds, r \in AgentIds \cup {"*"}, c \in MsgContents}

\* subscribing, unsubscribing, sending and broadcasting, in any order
NextBus ==
    \/ \E a \in AgentIds, h \in {"rec", "crash"} : Subscribe(a, h) /\ UNCHANGED <<gwvars, others>>
    \/ \E a \in AgentIds : Unsubscribe(a) /\ UNCHANGED <<gwvars, others>>
    \/ \E m \in InfoMessages : Send(m) /\ UNCHANGED <<gwvars, others>>
    \/ \E m \in InfoMessages : Broadcast(m) /\ UNCHANGED <<gwvars, others>>

InitBus == GraphIdle /\ BusIdle /\ OthersIdle

SpecBus == InitBus /\ [][NextBus]_vars

-----------------------------------------------------------------------------
(* Requests on a bus whose responder has its handlers in place             *)

\* every list of at most n handlers
RECURSIVE HandlerLists(_)
HandlerLists(n) ==
    IF n = 0 THEN {<<>>}
    ELSE HandlerLists(n - 1) \cup
         {Append(hs, h) : hs \in {l \in HandlerLists(n - 1) : Len(l) = n - 1}, h \in Handlers}

\* bus = MessageBus(); for h in hs: bus.subscribe(agent_id, h)
RECURSIVE Subscribed(_, _, _)
Subscribed(agent_id, hs, n) ==
    IF n = 0 THEN <<>>
    ELSE subscribe([subscribers |-> Subscribed(agent_id, hs, n - 1)], agent_id, hs[n]).subscribers

InitRequest ==
    /\ GraphIdle
    /\ OthersIdle
    /\ \E hs \in HandlerLists(MaxHandlers) : subscribers = Subscribed("agent_a", hs, Len(hs))
    /\ pending_responses = {}
    /\ futures = [c \in Cids |-> NoFuture]
    /\ uuids = 0
    /\ calls = [c \in Cids |-> NoRequest]
    /\ inbox = {}
    /\ responds = [c \in Cids |-> <<>>]
    /\ received = <<>>
    /\ lastCall = NoCall

\* the requests of the orchestrator to agent_a
RequestMessages == {AgentMessage("orchestrator", "agent_a", REQUEST, c) : c \in MsgContents}

ResponseContents == {<<"A">>, <<"B">>}

\* what an agent may hand to respond: a request it kept, or a message that never was a request
Originals == inbox \cup {AgentMessage("orchestrator", "agent_a", INFO, c) : c \in MsgContents}

NextRequest ==
    \/ \E m \in RequestMessages : Request(m) /\ UNCHANGED <<gwvars, others>>
    \/ \E cid \in Cids : RequestReturn(cid) /\ UNCHANGED <<gwvars, others>>
    \/ \E cid \in Cids : RequestTimeout(cid) /\ UNCHANGED <<gwvars, others>>
    \/ \E m \in Originals, c \in ResponseContents : Respond(m, c) /\ UNCHANGED <<gwvars, others>>

SpecRequest == InitRequest /\ [][NextRequest]_vars

-----------------------------------------------------------------------------
(* checkpoint.py: strings that are matched and sorted                      *)

\* Checkpoint ids are matched by prefix and sorted, so task ids and checkpoint ids are
\* spelled out, one character per element. AsciiOrder lists the characters they are
\* made of by code point.
AsciiOrder ==
    <<"-", "0", "1", "2", "3", "4", "5", "6", "7", "8", "9", "_",
      "a", "b", "c", "d", "e", "f", "k", "s", "t">>

Ord(ch) == CHOOSE i \in DOMAIN AsciiOrder : AsciiOrder[i] = ch

\* a < b on str: by code point, a proper prefix first
RECURSIVE StrLess(_, _)
StrLess(a, b) ==
    IF a = <<>> THEN b # <<>>
    ELSE IF b = <<>> THEN FALSE
    ELSE IF Head(a) = Head(b) THEN StrLess(Tail(a), Tail(b))
    ELSE Ord(Head(a)) < Ord(Head(b))

\* s.startswith(prefix)
StartsWith(s, prefix) == Len(prefix) <= Len(s) /\ SubSeq(s, 1, Len(prefix)) = prefix

\* sorted(names) for a collection of distinct str
RECURSIVE sorted(_)
sorted(names) ==
    IF names = {} THEN <<>>
    ELSE LET least == CHOOSE x \in names : \A y \in names \ {x} : StrLess(x, y)
         IN  <<least>> \o sorted(names \ {least})

\* ch * n
RECURSIVE Repeat(_, _)
Repeat(ch, n) == IF n = 0 THEN <<>> ELSE <<ch>> \o Repeat(ch, n - 1)

-----------------------------------------------------------------------------
(* checkpoint.py: Python values and the JSON text json.dump writes for them *)

\* A Python value: its type t, its text a when it is an atom, its items when it is a
\* container. A dict is the list of its items in insertion order, each item carrying
\* its key in a and its value as its one item.
PyStr(text) == [t |-> "str", a |-> text, items |-> <<>>]

PyInt(digits) == [t |-> "int", a |-> digits, items |-> <<>>]

PyNone == [t |-> "NoneType", a |-> "", items |-> <<>>]

PyList(items) == [t |-> "list", a |-> "", items |-> items]

PyTuple(items) == [t |-> "tuple", a |-> "", items |-> items]

\* set(): a value json has no encoding for
PySet == [t |-> "set", a |-> "", items |-> <<>>]

PyItem(key, value) == [t |-> "item", a |-> key, items |-> <<value>>]

PyDict(items) == [t |-> "dict", a |-> "", items |-> items]

\* d[key]
PyGet(d, key) == d.items[CHOOSE i \in DOMAIN d.items : d.items[i].a = key].items[1]

\* Optional[str] of the model as a Python value, and back
ToPy(x) == IF x = None THEN PyNone ELSE PyStr(x)

FromPy(v) == IF v.t = "NoneType" THEN None ELSE v.a

\* json.JSONEncoder.default raises TypeError for a value that is no dict, list, tuple,
\* str, int or None
RECURSIVE serializable(_)
serializable(v) ==
    \/ v.t \in {"str", "int", "NoneType"}
    \/ /\ v.t \in {"list", "tuple", "dict", "item"}
       /\ \A i \in DOMAIN v.items : serializable(v.items[i])

\* the JSON text of a serializable value: list and tuple both become an array
RECURSIVE json_text(_)
json_text(v) ==
    CASE v.t = "str" -> [t |-> "string", a |-> v.a, items |-> <<>>]
      [] v.t = "int" -> [t |-> "number", a |-> v.a, items |-> <<>>]
      [] v.t = "NoneType" -> [t |-> "null", a |-> "", items |-> <<>>]
      [] v.t \in {"list", "tuple"} ->
            [t |-> "array", a |-> "", items |-> [i \in DOMAIN v.items |-> json_text(v.items[i])]]
      [] v.t = "dict" ->
            [t |-> "object", a |-> "", items |-> [i \in DOMAIN v.items |-> json_text(v.items[i])]]
      [] v.t = "item" ->
            [t |-> "member", a |-> v.a, items |-> <<json_text(v.items[1])>>]

\* json.load: an array becomes a list, an object a dict
RECURSIVE json_load(_)
json_load(doc) ==
    CASE doc.t = "string" -> PyStr(doc.a)
      [] doc.t = "number" -> PyInt(doc.a)
      [] doc.t = "null" -> PyNone
      [] doc.t = "array" -> PyList([i \in DOMAIN doc.items |-> json_load(doc.items[i])])
      [] doc.t = "object" -> PyDict([i \in DOMAIN doc.items |-> json_load(doc.items[i])])
      [] doc.t = "member" -> PyItem(doc.a, json_load(doc.items[1]))

\* CheckpointManager._serialize_graph
serialize_graph(graph) ==
    PyDict(<<
        PyItem("nodes", PyDict(
            [i \in DOMAIN graph.nodes |->
                PyItem(graph.nodes[i].id, PyDict(<<
                    PyItem("id", PyStr(graph.nodes[i].id)),
                    PyItem("content", PyStr(graph.nodes[i].content)),
                    PyItem("agent", PyStr(graph.nodes[i].agent)),
                    PyItem("depends_on",
                           PyList([k \in DOMAIN graph.nodes[i].depends_on |->
                                      PyStr(graph.nodes[i].depends_on[k])])),
                    PyItem("status", PyStr(graph.nodes[i].status)),
                    PyItem("result", ToPy(graph.nodes[i].result))>>))])),
        PyItem("root", ToPy(graph.root))>>)

\* TaskNode(id=node_data["id"], ..., status=TaskStatus(node_data["status"]), ...)
deserialize_node(node_data) ==
    [id |-> PyGet(node_data, "id").a,
     content |-> PyGet(node_data, "content").a,
     agent |-> PyGet(node_data, "agent").a,
     depends_on |-> [k \in DOMAIN PyGet(node_data, "depends_on").items |->
                        PyGet(node_data, "depends_on").items[k].a],
     status |-> PyGet(node_data, "status").a,
     result |-> FromPy(PyGet(node_data, "result"))]

\* CheckpointManager._deserialize_graph
deserialize_graph(data) ==
    [nodes |-> [i \in DOMAIN PyGet(data, "nodes").items |->
                   deserialize_node(PyGet(data, "nodes").items[i].items[1])],
     root |-> FromPy(PyGet(data, "root"))]

-----------------------------------------------------------------------------
(* checkpoint.py: CheckpointManager on its storage directory               *)

\* uuid.uuid4().hex[:8]
HexLen == 8

\* the suffixes uuid4 gives in the model: the least and the greatest
Suffixes == {Repeat("0", HexLen), Repeat("f", HexLen)}

\* the decimal digit n as a character
Digit(n) == AsciiOrder[n + 2]

\* datetime.now().strftime('%Y%m%d_%H%M%S'), the clock counting the seconds of the
\* minute that starts at 2025-01-01 00:00:00
strftime(clock) ==
    <<"2", "0", "2", "5", "0", "1", "0", "1", "_", "0", "0", "0", "0">>
        \o <<Digit(clock \div 10), Digit(clock % 10)>>

\* f"{task_id}_{datetime.now().strftime(...)}_{uuid.uuid4().hex[:8]}"
checkpoint_id_of(task_id, clock, hex) ==
    task_id \o <<"_">> \o strftime(clock) \o <<"_">> \o hex

\* what json.dump leaves in the file when it raises half way: no JSON document
Truncated ==
    [valid |-> FALSE, checkpoint_id |-> <<>>, task_id |-> <<>>, timestamp |-> 0,
     graph |-> json_text(PyNone), context |-> json_text(PyNone)]

\* open(storage_path / f"{name}.json", "w") and write
write(fs, name, content) ==
    [n \in DOMAIN fs \cup {name} |-> IF n = name THEN content ELSE fs[n]]

\* checkpoint_file.unlink()
unlink(fs, name) == [n \in DOMAIN fs \ {name} |-> fs[n]]

\* CheckpointManager.save: the directory after it, the id returned, the failure raised
save(fs, task_id, graph, context, clock, hex) ==
    LET checkpoint_id == checkpoint_id_of(task_id, clock, hex)
        graph_data == serialize_graph(graph)
    IN  IF serializable(graph_data) /\ serializable(context)
        THEN [files |-> write(fs, checkpoint_id,
                              [valid |-> TRUE, checkpoint_id |-> checkpoint_id,
                               task_id |-> task_id, timestamp |-> clock,
                               graph |-> json_text(graph_data),
                               context |-> json_text(context)]),
              returned |-> <<checkpoint_id>>, error |-> None]
        ELSE [files |-> write(fs, checkpoint_id, Truncated),
              returned |-> <<>>, error |-> "TypeError"]

\* load that gives nothing back for a missing file instead of failing
load_missing_gives_nothing(fs, checkpoint_id) ==
    IF checkpoint_id \notin DOMAIN fs THEN [loaded |-> <<>>, error |-> None]
    ELSE IF ~fs[checkpoint_id].valid THEN [loaded |-> <<>>, error |-> "JSONDecodeError"]
    ELSE [loaded |-> <<[checkpoint_id |-> fs[checkpoint_id].checkpoint_id,
                        task_id |-> fs[checkpoint_id].task_id,
                        timestamp |-> fs[checkpoint_id].timestamp,
                        graph |-> deserialize_graph(json_load(fs[checkpoint_id].graph)),
                        context |-> json_load(fs[checkpoint_id].context)]>>,
          error |-> None]

\* load that hands back the graph object the caller still holds instead of one
\* rebuilt from the file
load_returns_live_graph(fs, checkpoint_id) ==
    IF checkpoint_id \notin DOMAIN fs THEN [loaded |-> <<>>, error |-> "FileNotFoundError"]
    ELSE IF ~fs[checkpoint_id].valid THEN [loaded |-> <<>>, error |-> "JSONDecodeError"]
    ELSE [loaded |-> <<[checkpoint_id |-> fs[checkpoint_id].checkpoint_id,
                        task_id |-> fs[checkpoint_id].task_id,
                        timestamp |-> fs[checkpoint_id].timestamp,
                        graph |-> Graph,
                        context |-> json_load(fs[checkpoint_id].context)]>>,
          error |-> None]

\* CheckpointManager.load: the dict returned, or the failure raised
load(fs, checkpoint_id) ==
    IF checkpoint_id \notin DOMAIN fs THEN [loaded |-> <<>>, error |-> "FileNotFoundError"]
    ELSE IF ~fs[checkpoint_id].valid THEN [loaded |-> <<>>, error |-> "JSONDecodeError"]
    ELSE [loaded |-> <<[checkpoint_id |-> fs[checkpoint_id].checkpoint_id,
                        task_id |-> fs[checkpoint_id].task_id,
                        timestamp |-> fs[checkpoint_id].timestamp,
                        graph |-> deserialize_graph(json_load(fs[checkpoint_id].graph)),
                        context |-> json_load(fs[checkpoint_id].context)]>>,
          error |-> None]

\* self.storage_path.glob(f"{task_id}_*.json"): the stems of the files whose name
\* starts with the task id and an underscore
glob(fs, task_id) == {n \in DOMAIN fs : StartsWith(n, task_id \o <<"_">>)}

\* CheckpointManager.list_checkpoints
list_checkpoints(fs, task_id) == sorted(glob(fs, task_id))

\* delete that reports success whether or not the file was there
delete_reports_true(fs, checkpoint_id) ==
    [files |-> unlink(fs, checkpoint_id), removed |-> TRUE]

\* CheckpointManager.delete
delete(fs, checkpoint_id) ==
    IF checkpoint_id \in DOMAIN fs
    THEN [files |-> unlink(fs, checkpoint_id), removed |-> TRUE]
    ELSE [files |-> fs, removed |-> FALSE]

-----------------------------------------------------------------------------
(* The checkpoint store as a state machine                                  *)

\* save calls made on one store
MaxSaves == 2

\* seconds the clock advances while the store is used
MaxClock == 1

\* the task ids checkpoints are saved for: "task" and "task_a"
TaskIds == {<<"t", "a", "s", "k">>, <<"t", "a", "s", "k", "_", "a">>}

\* context = {}, as in test_checkpoint_lists_by_task
StoreContexts == {PyDict(<<>>)}

\* the graph of test_checkpoint_lists_by_task: one node
StoreGraph == add_node(EmptyGraph, TaskNode("1", "task", "developer", <<>>))

\* the ids save has produced
SavedIds == {saves[i].id : i \in DOMAIN saves}

\* an id no save call produces
NeverSaved == checkpoint_id_of(<<"t", "a", "s", "k">>, 0, Repeat("a", HexLen))

StoreCall(op, task_id, checkpoint_id) ==
    [NoStoreCall EXCEPT !.op = op, !.task_id = task_id, !.id = checkpoint_id,
                        !.before = files]

\* manager.save(task_id, graph, context), uuid4 giving hex
Save(task_id, graph, context, hex) ==
    /\ Len(saves) < MaxSaves
    /\ LET r == save(files, task_id, graph, context, now, hex)
           checkpoint_id == checkpoint_id_of(task_id, now, hex)
       IN  /\ files' = r.files
           /\ saves' = Append(saves, [task_id |-> task_id, id |-> checkpoint_id,
                                      graph |-> graph, context |-> context,
                                      returned |-> r.returned # <<>>, live |-> r.returned # <<>>])
           /\ lastStore' = [StoreCall("save", task_id, checkpoint_id) EXCEPT
                               !.returned = r.returned, !.error = r.error]
    /\ UNCHANGED now

\* manager.load(checkpoint_id)
Load(checkpoint_id) ==
    /\ LET r == load(files, checkpoint_id)
       IN  lastStore' = [StoreCall("load", <<>>, checkpoint_id) EXCEPT
                            !.loaded = r.loaded, !.error = r.error]
    /\ UNCHANGED <<files, now, saves>>

\* manager.list_checkpoints(task_id)
ListCheckpoints(task_id) ==
    /\ lastStore' = [StoreCall("list", task_id, <<>>) EXCEPT
                        !.listing = list_checkpoints(files, task_id)]
    /\ UNCHANGED <<files, now, saves>>

\* manager.delete(checkpoint_id)
Delete(checkpoint_id) ==
    /\ LET r == delete(files, checkpoint_id)
       IN  /\ files' = r.files
           /\ lastStore' = [StoreCall("delete", <<>>, checkpoint_id) EXCEPT
                               !.removed = r.removed]
    /\ saves' = [i \in DOMAIN saves |->
                    IF saves[i].id = checkpoint_id THEN [saves[i] EXCEPT !.live = FALSE]
                    ELSE saves[i]]
    /\ UNCHANGED now

\* a second passes on the wall clock
Tick ==
    /\ now < MaxClock
    /\ now' = now + 1
    /\ lastStore' = NoStoreCall
    /\ UNCHANGED <<files, saves>>

InitStore == GraphIdle /\ BusIdle /\ StoreIdle /\ RecoveryIdle /\ LaterIdle

\* saving, loading, listing and deleting in any order while the clock runs
NextStore ==
    \/ \E task_id \in TaskIds, context \in StoreContexts, hex \in Suffixes :
          Save(task_id, StoreGraph, context, hex) /\ UNCHANGED <<gwvars, bvars, evars, lvars>>
    \/ \E id \in SavedIds \cup {NeverSaved} : Load(id) /\ UNCHANGED <<gwvars, bvars, evars, lvars>>
    \/ \E task_id \in TaskIds : ListCheckpoints(task_id) /\ UNCHANGED <<gwvars, bvars, evars, lvars>>
    \/ \E id \in SavedIds \cup {NeverSaved} : Delete(id) /\ UNCHANGED <<gwvars, bvars, evars, lvars>>
    \/ Tick /\ UNCHANGED <<gwvars, bvars, evars, lvars>>

SpecStore == InitStore /\ [][NextStore]_vars

-----------------------------------------------------------------------------
(* One save of any graph with any context, then load                        *)

\* the nodes a saved graph is made of: any status, result and depends_on
SavedNodes(id) ==
    {[TaskNode(id, "task", "developer", depends_on) EXCEPT !.status = status,
                                                            !.result = result] :
        depends_on \in DepChoices, status \in TaskStatus, result \in {None, "r1"}}

\* graphs of no, one and two nodes, in either insertion order, with any root
SavedGraphs ==
    {[nodes |-> ns, root |-> r] :
        ns \in {<<>>} \cup {<<n>> : n \in SavedNodes("1")}
               \cup {<<n, m>> : n \in SavedNodes("1"), m \in SavedNodes("2")}
               \cup {<<m, n>> : n \in SavedNodes("1"), m \in SavedNodes("2")},
        r \in {None, "1", "2"}}

\* {}, {"user_input": "original question"}, {"step": 3, "note": None},
\* {"visited": ["a", "b"]}, {"opts": {"k": "v"}}, {"pair": ("a", "b")}, {"seen": set()}
Contexts ==
    {PyDict(<<>>),
     PyDict(<<PyItem("user_input", PyStr("original question"))>>),
     PyDict(<<PyItem("step", PyInt("3")), PyItem("note", PyNone)>>),
     PyDict(<<PyItem("visited", PyList(<<PyStr("a"), PyStr("b")>>))>>),
     PyDict(<<PyItem("opts", PyDict(<<PyItem("k", PyStr("v"))>>))>>),
     PyDict(<<PyItem("pair", PyTuple(<<PyStr("a"), PyStr("b")>>))>>),
     PyDict(<<PyItem("seen", PySet)>>)}

NextRoundTrip ==
    \/ /\ saves = <<>>
       /\ \E graph \in SavedGraphs, context \in Contexts :
             Save(<<"t", "a", "s", "k">>, graph, context, Repeat("0", HexLen))
       /\ UNCHANGED <<gwvars, bvars, evars, lvars>>
    \/ \E id \in SavedIds : Load(id) /\ UNCHANGED <<gwvars, bvars, evars, lvars>>

SpecRoundTrip == InitStore /\ [][NextRoundTrip]_vars

-----------------------------------------------------------------------------
(* error_recovery.py: RecoveryStrategy, RecoveryResult, ERROR_PATTERNS     *)

RETRY == "retry"

FALLBACK == "fallback"

HUMAN_HELP == "human_help"

ABORT == "abort"

\* A text is the sequence of its pieces. An error description is a sequence of words,
\* and an alternative of a pattern is the word sequence it has to find in it.
\* RecoveryResult: an Optional[str] field is <<>> for None and <<text>> for a str
RecoveryResult(strategy, user_message, wait_seconds, question_for_user, suggested_action) ==
    [strategy |-> strategy, user_message |-> user_message, wait_seconds |-> wait_seconds,
     question_for_user |-> question_for_user, suggested_action |-> suggested_action]

\* ERROR_PATTERNS: (pattern, strategy, message, wait_seconds), the pattern as the set of
\* its alternatives
ERROR_PATTERNS ==
    <<[pattern |-> {<<"rate", "limit">>, <<"too", "many", "requests">>, <<"429">>},
       strategy |-> RETRY, message |-> "Rate limit hit", wait |-> 30],
      [pattern |-> {<<"timeout">>, <<"timed", "out">>},
       strategy |-> RETRY, message |-> "Request timed out", wait |-> 5],
      [pattern |-> {<<"connection">>, <<"network">>, <<"unreachable">>},
       strategy |-> RETRY, message |-> "Network issue", wait |-> 10],
      [pattern |-> {<<"permission">>, <<"access", "denied">>, <<"forbidden">>, <<"403">>},
       strategy |-> HUMAN_HELP, message |-> "Permission issue", wait |-> 0],
      [pattern |-> {<<"not", "found">>, <<"404">>, <<"does", "not", "exist">>},
       strategy |-> HUMAN_HELP, message |-> "Resource not found", wait |-> 0],
      [pattern |-> {<<"invalid">>, <<"malformed">>, <<"parse", "error">>},
       strategy |-> FALLBACK, message |-> "Invalid response", wait |-> 0]>>

\* the words of the model that are not in lower case, with their lower-case form
Capitalized == <<<<"Rate", "rate">>, <<"Connection", "connection">>, <<"Timeout", "timeout">>>>

\* word.lower()
lower_word(word) ==
    IF \E i \in DOMAIN Capitalized : Capitalized[i][1] = word
    THEN Capitalized[CHOOSE i \in DOMAIN Capitalized : Capitalized[i][1] = word][2]
    ELSE word

\* str(error).lower()
lower(text) == [i \in DOMAIN text |-> lower_word(text[i])]

\* re.search(pattern, text): some alternative occurs somewhere in the text
search(pattern, text) ==
    \E alternative \in pattern :
        \E i \in 1..(Len(text) - Len(alternative) + 1) :
            SubSeq(text, i, i + Len(alternative) - 1) = alternative

\* task_content[:50]
PreviewLen == 50

preview(task_content) ==
    IF Len(task_content) > PreviewLen THEN SubSeq(task_content, 1, PreviewLen)
    ELSE task_content

-----------------------------------------------------------------------------
(* error_recovery.py: ErrorRecovery.analyze                                *)

\* the body of the loop for a rule that matched, escalating one attempt too early
matched_escalates_early(self, rule, error, attempt_count) ==
    IF rule.strategy = RETRY /\ attempt_count >= self.max_retries
    THEN RecoveryResult(FALLBACK,
                        <<rule.message, ". Tried ", ToString(attempt_count), " times. ",
                          "Trying alternative approach.">>,
                        0, <<>>, <<"Use fallback model or method">>)
    ELSE IF rule.strategy = HUMAN_HELP
    THEN RecoveryResult(rule.strategy, <<rule.message, ": ">> \o error, 0,
                        <<<<"I encountered an issue: ">> \o error \o
                          <<". ", "Can you help resolve this or provide an alternative?">>>>,
                        <<>>)
    ELSE RecoveryResult(rule.strategy,
                        <<rule.message, ". Retrying in ", ToString(rule.wait), " seconds...">>,
                        rule.wait, <<>>, <<>>)

\* the body of the loop for a rule that matched, the escalation keeping the rule's wait
matched_keeps_wait(self, rule, error, attempt_count) ==
    IF rule.strategy = RETRY /\ attempt_count > self.max_retries
    THEN RecoveryResult(FALLBACK,
                        <<rule.message, ". Tried ", ToString(attempt_count), " times. ",
                          "Trying alternative approach.">>,
                        rule.wait, <<>>, <<"Use fallback model or method">>)
    ELSE IF rule.strategy = HUMAN_HELP
    THEN RecoveryResult(rule.strategy, <<rule.message, ": ">> \o error, 0,
                        <<<<"I encountered an issue: ">> \o error \o
                          <<". ", "Can you help resolve this or provide an alternative?">>>>,
                        <<>>)
    ELSE RecoveryResult(rule.strategy,
                        <<rule.message, ". Retrying in ", ToString(rule.wait), " seconds...">>,
                        rule.wait, <<>>, <<>>)

\* the body of the loop for a rule that matched, without the test of the retry ceiling
matched_never_escalates(self, rule, error, attempt_count) ==
    IF rule.strategy = HUMAN_HELP
    THEN RecoveryResult(rule.strategy, <<rule.message, ": ">> \o error, 0,
                        <<<<"I encountered an issue: ">> \o error \o
                          <<". ", "Can you help resolve this or provide an alternative?">>>>,
                        <<>>)
    ELSE RecoveryResult(rule.strategy,
                        <<rule.message, ". Retrying in ", ToString(rule.wait), " seconds...">>,
                        rule.wait, <<>>, <<>>)

\* the body of the loop for a rule that matched: the three returns
matched(self, rule, error, attempt_count) ==
    IF rule.strategy = RETRY /\ attempt_count > self.max_retries
    THEN RecoveryResult(FALLBACK,
                        <<rule.message, ". Tried ", ToString(attempt_count), " times. ",
                          "Trying alternative approach.">>,
                        0, <<>>, <<"Use fallback model or method">>)
    ELSE IF rule.strategy = HUMAN_HELP
    THEN RecoveryResult(rule.strategy, <<rule.message, ": ">> \o error, 0,
                        <<<<"I encountered an issue: ">> \o error \o
                          <<". ", "Can you help resolve this or provide an alternative?">>>>,
                        <<>>)
    ELSE RecoveryResult(rule.strategy,
                        <<rule.message, ". Retrying in ", ToString(rule.wait), " seconds...">>,
                        rule.wait, <<>>, <<>>)

\* the return after the loop, quoting the whole of task_content
unknown_whole_content(error, task_content) ==
    RecoveryResult(HUMAN_HELP, <<"Unexpected error: ">> \o error, 0,
                   <<<<"I encountered an unexpected error while working on ", "'">>
                     \o task_content \o <<"...': ">> \o error
                     \o <<". How would you like me to proceed?">>>>,
                   <<>>)

\* the return after the loop: unknown error
unknown(error, task_content) ==
    RecoveryResult(HUMAN_HELP, <<"Unexpected error: ">> \o error, 0,
                   <<<<"I encountered an unexpected error while working on ", "'">>
                     \o preview(task_content) \o <<"...': ">> \o error
                     \o <<". How would you like me to proceed?">>>>,
                   <<>>)

\* the loop over ERROR_PATTERNS that goes on after a match: the last match decides
RECURSIVE analyze_last_match(_, _, _, _, _)
analyze_last_match(self, error, task_content, attempt_count, k) ==
    IF k > Len(ERROR_PATTERNS) THEN unknown(error, task_content)
    ELSE LET later == analyze_last_match(self, error, task_content, attempt_count, k + 1)
         IN  IF search(ERROR_PATTERNS[k].pattern, lower(error))
                /\ \A j \in (k + 1)..Len(ERROR_PATTERNS) :
                      ~search(ERROR_PATTERNS[j].pattern, lower(error))
             THEN matched(self, ERROR_PATTERNS[k], error, attempt_count)
             ELSE later

\* for pattern, strategy, message, wait in ERROR_PATTERNS, from rule k
RECURSIVE analyze_from(_, _, _, _, _)
analyze_from(self, error, task_content, attempt_count, k) ==
    IF k > Len(ERROR_PATTERNS) THEN unknown(error, task_content)
    ELSE IF search(ERROR_PATTERNS[k].pattern, lower(error))
         THEN matched(self, ERROR_PATTERNS[k], error, attempt_count)
         ELSE analyze_from(self, error, task_content, attempt_count, k + 1)

\* ErrorRecovery.analyze
analyze(self, error, task_content, attempt_count) ==
    analyze_from(self, error, task_content, attempt_count, 1)

-----------------------------------------------------------------------------
(* Error analysis as a state machine: one analyze call per step             *)

\* words in an error description
MaxWords == 2

\* the greatest retry ceiling a recovery is constructed with
MaxCeiling == 3

\* the words error descriptions are made of
Vocabulary ==
    {"Rate", "limit", "Timeout", "Connection", "permission", "not", "found", "invalid",
     "429", "disk"}

\* every error description of at most n words
RECURSIVE Descriptions(_)
Descriptions(n) ==
    IF n = 0 THEN {<<>>}
    ELSE Descriptions(n - 1) \cup
         {Append(d, w) : d \in {x \in Descriptions(n - 1) : Len(x) = n - 1}, w \in Vocabulary}

\* task descriptions of 3, 50 and 51 characters
TaskContents == {Repeat("a", 3), Repeat("a", PreviewLen), Repeat("a", PreviewLen + 1)}

\* the recovery as analyze reads it
Recovery == [max_retries |-> max_retries]

\* recovery.analyze(Exception(error), task_content, attempt_count)
Analyze(error, task_content, attempt_count) ==
    /\ analysis' = [error |-> error, task_content |-> task_content,
                    attempt_count |-> attempt_count,
                    result |-> <<analyze(Recovery, error, task_content, attempt_count)>>]
    /\ UNCHANGED <<max_retries, strategies>>

\* recovery = ErrorRecovery(max_retries)
InitRecovery ==
    /\ GraphIdle
    /\ BusIdle
    /\ StoreIdle
    /\ LaterIdle
    /\ max_retries \in 0..MaxCeiling
    /\ analysis = NoAnalysis
    /\ strategies = <<>>

\* one analyze call on a new recovery: analyze keeps nothing from call to call
NextRecovery ==
    /\ analysis = NoAnalysis
    /\ \E error \in Descriptions(MaxWords), task_content \in TaskContents,
          attempt_count \in 0..(MaxCeiling + 2) :
           Analyze(error, task_content, attempt_count)
    /\ UNCHANGED <<gwvars, bvars, svars, lvars>>

SpecRecovery == InitRecovery /\ [][NextRecovery]_vars

-----------------------------------------------------------------------------
(* reflection.py: ReflectionResult, ReflectionLoop.reflect                 *)

\* the marker REFLECTION_PROMPT asks the evaluator to start a rejection with
MARKER == "NEEDS_IMPROVEMENT:"

\* ReflectionResult
ReflectionResult(approved, retry_count, final_result, feedback_history) ==
    [approved |-> approved, retry_count |-> retry_count, final_result |-> final_result,
     feedback_history |-> feedback_history]

\* what agent.step returns: an object with or without the attribute msgs, msgs being the
\* list of the contents of its messages; a content is the sequence of its pieces
Response(has_msgs, msgs) == [has_msgs |-> has_msgs, msgs |-> msgs]

\* a reply without messages read as a rejection
feedback_of_rejects_silence(response) ==
    IF response.has_msgs /\ response.msgs # <<>> THEN response.msgs[1] ELSE <<MARKER>>

\* feedback = ""; if hasattr(response, "msgs") and response.msgs: response.msgs[0].content
feedback_of(response) ==
    IF response.has_msgs /\ response.msgs # <<>> THEN response.msgs[1] ELSE <<>>

\* "NEEDS_IMPROVEMENT:" in feedback: the marker anywhere in the text
needs_improvement(feedback) == \E i \in DOMAIN feedback : feedback[i] = MARKER

\* reflect up to the loop: current_result = result, feedback_history = [], and the
\* return after the loop when range(self.max_retries + 1) is empty
reflect_enter(self, result, execute_fn) ==
    IF self.max_retries + 1 > 0
    THEN [pc |-> "loop", result |-> result, execute_fn |-> execute_fn, retry |-> 0,
          called |-> FALSE, current_result |-> result, feedback_history |-> <<>>,
          returned |-> <<>>]
    ELSE [pc |-> "returned", result |-> result, execute_fn |-> execute_fn, retry |-> 0,
          called |-> FALSE, current_result |-> result, feedback_history |-> <<>>,
          returned |-> <<ReflectionResult(FALSE, self.max_retries, result, <<>>)>>]

\* the return for a feedback without the marker
approve(f) ==
    [f EXCEPT !.pc = "returned", !.called = FALSE,
              !.returned = <<ReflectionResult(TRUE, f.retry, f.current_result,
                                              f.feedback_history)>>]

\* the return for a rejection when there is no execute_fn
stop(f, history) ==
    [f EXCEPT !.pc = "returned", !.called = FALSE, !.feedback_history = history,
              !.returned = <<ReflectionResult(FALSE, f.retry, f.current_result, history)>>]

\* the end of a pass that goes on: with current_result as it now is, the next retry of
\* the range, or the return after the loop
advance(self, f, history, called, current_result) ==
    IF f.retry + 1 < self.max_retries + 1
    THEN [f EXCEPT !.retry = f.retry + 1, !.called = called,
                   !.current_result = current_result, !.feedback_history = history]
    ELSE [f EXCEPT !.pc = "returned", !.called = called,
                   !.current_result = current_result, !.feedback_history = history,
                   !.returned = <<ReflectionResult(FALSE, self.max_retries, current_result,
                                                   history)>>]

\* a pass that puts the approving feedback on the history as well
attempt_records_approval(self, f, response, value) ==
    LET feedback == feedback_of(response)
        history == Append(f.feedback_history, feedback)
    IN  IF ~needs_improvement(feedback)
        THEN approve([f EXCEPT !.feedback_history = history])
        ELSE IF ~f.execute_fn THEN stop(f, history)
        ELSE IF f.retry < self.max_retries THEN advance(self, f, history, TRUE, value)
        ELSE advance(self, f, history, FALSE, f.current_result)

\* a pass that calls execute_fn and drops what it returned
attempt_discards_improvement(self, f, response, value) ==
    LET feedback == feedback_of(response)
        history == Append(f.feedback_history, feedback)
    IN  IF ~needs_improvement(feedback) THEN approve(f)
        ELSE IF ~f.execute_fn THEN stop(f, history)
        ELSE IF f.retry < self.max_retries
        THEN advance(self, f, history, TRUE, f.current_result)
        ELSE advance(self, f, history, FALSE, f.current_result)

\* a pass without the early return for a missing execute_fn
attempt_goes_on_without_fn(self, f, response, value) ==
    LET feedback == feedback_of(response)
        history == Append(f.feedback_history, feedback)
    IN  IF ~needs_improvement(feedback) THEN approve(f)
        ELSE IF f.execute_fn /\ f.retry < self.max_retries
        THEN advance(self, f, history, TRUE, value)
        ELSE advance(self, f, history, FALSE, f.current_result)

\* a pass that calls execute_fn after every rejection, the last of the range included
attempt_improves_last(self, f, response, value) ==
    LET feedback == feedback_of(response)
        history == Append(f.feedback_history, feedback)
    IN  IF ~needs_improvement(feedback) THEN approve(f)
        ELSE IF ~f.execute_fn THEN stop(f, history)
        ELSE advance(self, f, history, TRUE, value)

\* one pass of the loop, response being what agent.step returns and value what
\* execute_fn returns if it is called; when the range is used up, the return after it
attempt(self, f, response, value) ==
    LET feedback == feedback_of(response)
        history == Append(f.feedback_history, feedback)
    IN  IF ~needs_improvement(feedback) THEN approve(f)
        ELSE IF ~f.execute_fn THEN stop(f, history)
        ELSE IF f.retry < self.max_retries THEN advance(self, f, history, TRUE, value)
        ELSE advance(self, f, history, FALSE, f.current_result)

-----------------------------------------------------------------------------
(* The reflection loop as a state machine: one step per pass of the loop    *)

\* the greatest max_retries a loop is constructed with
MaxLoopRetries == 2

\* the feedbacks of the tests, one with the marker inside the text, and the empty one
Feedbacks ==
    {<<"The result looks correct and complete.">>,
     <<MARKER, " Missing explanation">>,
     <<MARKER, " Still wrong">>,
     <<"Not acceptable. ", MARKER, " Wrong">>}

\* responses without msgs, with an empty msgs, with one message, and with a second
\* message that is not read
Responses ==
    {Response(FALSE, <<>>), Response(TRUE, <<>>)}
        \cup {Response(TRUE, <<feedback>>) : feedback \in Feedbacks}
        \cup {Response(TRUE, <<<<"Result is now complete and correct.">>,
                               <<MARKER, " Wrong">>>>)}

\* what reflect is given as result and what execute_fn returns
InitialResults == {"Initial"}

Improvements == {"Attempt 1", "Attempt 2"}

\* loop.reflect(agent, task, result, execute_fn) up to the first agent.step
Reflect(result, execute_fn) ==
    /\ reflection.pc = "none"
    /\ reflection' = reflect_enter(loop, result, execute_fn)
    /\ asked' = <<>>
    /\ produced' = <<>>
    /\ UNCHANGED loop

\* agent.step returns response and, if reflect calls it, execute_fn returns value
Attempt(response, value) ==
    /\ reflection.pc = "loop"
    /\ reflection' = attempt(loop, reflection, response, value)
    /\ asked' = Append(asked, feedback_of(response))
    /\ produced' = IF reflection'.called THEN Append(produced, value) ELSE produced
    /\ UNCHANGED loop

\* loop = ReflectionLoop(max_retries)
InitReflect ==
    /\ GraphIdle
    /\ BusIdle
    /\ StoreIdle
    /\ RecoveryIdle
    /\ ChainIdle
    /\ loop \in [max_retries : 0..MaxLoopRetries]
    /\ reflection = NoReflect
    /\ asked = <<>>
    /\ produced = <<>>

\* one reflect call: the loop keeps nothing from call to call
NextReflect ==
    \/ \E result \in InitialResults, execute_fn \in BOOLEAN :
           Reflect(result, execute_fn) /\ UNCHANGED <<gwvars, bvars, svars, evars, cvars>>
    \/ \E response \in Responses, value \in Improvements :
           Attempt(response, value) /\ UNCHANGED <<gwvars, bvars, svars, evars, cvars>>

SpecReflect == InitReflect /\ [][NextReflect]_vars

-----------------------------------------------------------------------------
(* model_fallback.py: ModelCallError, FallbackChain                         *)

\* an exception object: its type, its text, and which raise made it (the call and the
\* entry of the chain), two raises never giving the same object
Raised(type, text, at) == [type |-> type, text |-> text, at |-> at]

\* FallbackChain._get_adapter without a registry
RegistryRequired(at) == Raised("NotImplementedError", "Registry required", at)

\* what an entry does when it is tried with a registry: the stage that raises
\* ("get_adapter", "create_model", "step", or "none") with the text of the exception,
\* and the response agent.step returns if none does (<<>> for no response)
Outcome(fails, text, response) == [fails |-> fails, text |-> text, response |-> response]

\* the try block for one entry: the stage it got to, the exception it raised (<<>> if
\* it raised none) and the response of agent.step
try(self, outcome, at) ==
    IF self.registry = None
    THEN [reached |-> "get_adapter", error |-> <<RegistryRequired(at)>>, response |-> <<>>]
    ELSE IF outcome.fails = "none"
    THEN [reached |-> "step", error |-> <<>>, response |-> outcome.response]
    ELSE [reached |-> outcome.fails, error |-> <<Raised("Exception", outcome.text, at)>>,
          response |-> <<>>]

\* if hasattr(response, 'msgs') and response.msgs: return response.msgs[0];
\* return response
reply(response) ==
    IF response.has_msgs /\ response.msgs # <<>>
    THEN [msg |-> <<response.msgs[1]>>, response |-> <<>>]
    ELSE [msg |-> <<>>, response |-> <<response>>]

\* "; ".join([f"{p}/{m}: {e}" for p, m, e in errors]), from the k-th error on
RECURSIVE join_from(_, _)
join_from(errors, k) ==
    IF k > Len(errors) THEN <<>>
    ELSE (IF k > 1 THEN <<"; ">> ELSE <<>>)
         \o <<errors[k][1], "/", errors[k][2], ": ", errors[k][3].text>>
         \o join_from(errors, k + 1)

\* the summary naming only the last error
error_summary_last_only(errors) ==
    IF errors = <<>> THEN <<>> ELSE join_from(<<errors[Len(errors)]>>, 1)

error_summary(errors) == join_from(errors, 1)

\* raise ModelCallError(f"All models failed: {error_summary}")
ModelCallError(errors) ==
    [type |-> "ModelCallError", text |-> <<"All models failed: ">> \o error_summary(errors)]

\* what a call gives back: the chain as it leaves it, the entries it tried, and the
\* value it returned or the exception it raised
CallOutcome(self, attempts, returned, raised) ==
    [self |-> self, attempts |-> attempts, returned |-> returned, raised |-> raised]

\* the record of one tried entry
Attempted(entry, tried) ==
    [provider |-> entry.provider, model |-> entry.model, reached |-> tried.reached,
     error |-> tried.error, response |-> tried.response]

\* the loop giving up at the first entry that fails
RECURSIVE call_from_gives_up(_, _, _, _, _, _)
call_from_gives_up(self, k, errors, attempts, outcomes, n) ==
    IF k > Len(self.models) \/ errors # <<>>
    THEN CallOutcome(self, attempts, <<>>, <<ModelCallError(errors)>>)
    ELSE LET entry == self.models[k]
             tried == try(self, outcomes[k], <<n, k>>)
             tries == Append(attempts, Attempted(entry, tried))
         IN  IF tried.error = <<>>
             THEN CallOutcome([self EXCEPT !.last_used_provider = entry.provider], tries,
                              <<reply(tried.response[1])>>, <<>>)
             ELSE call_from_gives_up([self EXCEPT !.last_error = tried.error], k + 1,
                                     Append(errors, <<entry.provider, entry.model, tried.error[1]>>),
                                     tries, outcomes, n)

\* for model_config in self.models, from the k-th entry on, and the raise after the loop
RECURSIVE call_from(_, _, _, _, _, _)
call_from(self, k, errors, attempts, outcomes, n) ==
    IF k > Len(self.models)
    THEN CallOutcome(self, attempts, <<>>, <<ModelCallError(errors)>>)
    ELSE LET entry == self.models[k]
             tried == try(self, outcomes[k], <<n, k>>)
             tries == Append(attempts, Attempted(entry, tried))
         IN  IF tried.error = <<>>
             THEN CallOutcome([self EXCEPT !.last_used_provider = entry.provider], tries,
                              <<reply(tried.response[1])>>, <<>>)
             ELSE call_from([self EXCEPT !.last_error = tried.error], k + 1,
                            Append(errors, <<entry.provider, entry.model, tried.error[1]>>),
                            tries, outcomes, n)

\* FallbackChain.call, the n-th call made on the chain; outcomes[k] is what the k-th
\* entry does if it is tried
call(self, prompt, outcomes, n) == call_from(self, 1, <<>>, <<>>, outcomes, n)

-----------------------------------------------------------------------------
(* The fallback chain as a state machine: one call per step                 *)

\* entries in a chain
MaxModels == 2

\* calls made on one chain
MaxChainCalls == 2

\* the entries of the tests
Configured ==
    <<[provider |-> "primary", model |-> "gpt-4"], [provider |-> "fallback", model |-> "glm-4"],
      [provider |-> "a", model |-> "m1"], [provider |-> "b", model |-> "m2"]>>

\* the chains: no entry, the first entries of Configured, the chains of the two tests,
\* and one entry listed twice
Chains ==
    {SubSeq(Configured, 1, n) : n \in 0..MaxModels}
        \cup {SubSeq(Configured, 3, 4), <<Configured[1], Configured[1]>>}

\* what an entry can do: fail at each stage, answer with a message, answer without msgs
Outcomes ==
    {Outcome("get_adapter", "Unknown provider", <<>>),
     Outcome("create_model", "Bad key", <<>>),
     Outcome("step", "Rate limit", <<>>),
     Outcome("none", None, <<Response(TRUE, <<"Success">>)>>),
     Outcome("none", None, <<Response(FALSE, <<>>)>>)}

\* chain.call(prompt)
Call_(prompt, outcomes) ==
    LET n == chain_call.count + 1
        done == call(chain, prompt, outcomes, n)
    IN  /\ chain' = done.self
        /\ chain_call' = [count |-> n, prompt |-> prompt,
                          before |-> <<[last_used_provider |-> chain.last_used_provider,
                                        last_error |-> chain.last_error]>>,
                          attempts |-> done.attempts, returned |-> done.returned,
                          raised |-> done.raised]

\* chain = FallbackChain(models, registry)
InitChain ==
    /\ GraphIdle
    /\ BusIdle
    /\ StoreIdle
    /\ RecoveryIdle
    /\ ReflectionIdle
    /\ chain \in [models : Chains, registry : {None, "registry"},
                  last_used_provider : {None}, last_error : {<<>>}]
    /\ chain_call = NoChainCall

NextChain ==
    /\ chain_call.count < MaxChainCalls
    /\ \E outcomes \in [1..Len(chain.models) -> Outcomes] : Call_("test prompt", outcomes)
    /\ UNCHANGED <<gwvars, bvars, svars, evars, rvars>>

SpecChain == InitChain /\ [][NextChain]_vars

-----------------------------------------------------------------------------
(* Claims about TaskGraph                                                  *)

Range(seq) == {seq[i] : i \in DOMAIN seq}

\* the readiness rule as the design states it, on the current graph
ReadyByRule ==
    {id \in DictKeys(nodes) :
        /\ DictGet(nodes, id).status = PENDING
        /\ \A dep \in Range(DictGet(nodes, id).depends_on) :
              \/ dep \notin DictKeys(nodes)
              \/ DictGet(nodes, dep).status = COMPLETED}

\* C1: in every graph state reachable by add_node / mark_running / mark_complete /
\* mark_failed, get_ready_tasks returns exactly the nodes that are Pending and whose
\* every depends_on id is absent from the graph or names a Completed node: each such
\* node once, as it is stored in the graph, and no other node.
C1_ReadyExactlyPendingWithDepsDone ==
    LET ready == get_ready_tasks(Graph)
    IN  /\ {ready[i].id : i \in DOMAIN ready} = ReadyByRule
        /\ Len(ready) = Cardinality(ReadyByRule)
        /\ \A i \in DOMAIN ready : ready[i] = DictGet(nodes, ready[i].id)

\* C1 witness: a Pending node with two dependencies, one Completed and one absent from
\* the graph, is the one node returned; the Completed node is not returned.
C1_Witness ==
    LET ready == get_ready_tasks(Graph)
    IN  /\ DictKeys(nodes) = {"1", "3"}
        /\ DictGet(nodes, "3").depends_on = <<"1", "2">>
        /\ DictGet(nodes, "3").status = PENDING
        /\ DictGet(nodes, "1").status = COMPLETED
        /\ ready = <<DictGet(nodes, "3")>>

\* C3: root is the id of the first node handed to add_node with an empty depends_on
\* (unset while there was none), and once set no add_node and no mark_* call changes it.
C3_RootIsFirstRootless ==
    /\ [](root = firstRootless)
    /\ [][root # None => root' = root]_vars

\* C3 witness: root is set, a different node with no dependencies was added later and a
\* status setter has acted, and the root node itself was overwritten with dependencies.
C3_Witness ==
    /\ root # None
    /\ DictHas(nodes, root)
    /\ DictGet(nodes, root).depends_on # <<>>
    /\ \E i \in DOMAIN nodes :
          /\ nodes[i].id # root
          /\ nodes[i].depends_on = <<>>
          /\ i > DictIndex(nodes, root)
          /\ nodes[i].status = FAILED

\* C5: mark_complete(id, r1) followed by mark_complete(id, r2) gives the graph that the
\* single call mark_complete(id, r2) gives, with the node Completed and its result r2;
\* and a mark_complete call that found the node already Completed left it Completed
\* with the result of that last call.
C5_MarkCompleteLastWins ==
    /\ \A id \in MarkIds, r1 \in Results \cup {None}, r2 \in Results \cup {None} :
          LET twice == mark_complete(mark_complete(Graph, id, r1), id, r2)
          IN  /\ twice = mark_complete(Graph, id, r2)
              /\ DictHas(nodes, id) =>
                    /\ DictGet(twice.nodes, id).status = COMPLETED
                    /\ DictGet(twice.nodes, id).result = r2
    /\ (lastOp.op = "mark_complete" /\ lastOp.before # <<>>) =>
          /\ DictGet(nodes, lastOp.id).status = COMPLETED
          /\ DictGet(nodes, lastOp.id).result = lastOp.result

\* C5 witness: mark_complete(id, "r2") has just acted on a node that an earlier
\* mark_complete had left Completed with result "r1".
C5_Witness ==
    /\ lastOp.op = "mark_complete"
    /\ lastOp.before = <<COMPLETED, "r1">>
    /\ lastOp.result = "r2"
    /\ DictGet(nodes, lastOp.id).result = "r2"

\* C2 (supporting invariant): every node a worker has dispatched has left Pending, and
\* no worker dispatches the same node twice, so a node dispatched by both workers was
\* seen as ready by both before either marked it Running.
C2_DispatchOnlyFromStaleView ==
    \A w \in Workers :
        /\ \A i \in DOMAIN dispatched[w] :
              DictGet(nodes, dispatched[w][i]).status # PENDING
        /\ \A i \in DOMAIN dispatched[w], j \in DOMAIN dispatched[w] :
              dispatched[w][i] = dispatched[w][j] => i = j

\* C2 witness: both workers were handed the same node by get_ready_tasks, both marked
\* it Running and both are executing it: a double dispatch.
C2_DoubleDispatch ==
    /\ wpc["w1"] = "running"
    /\ wpc["w2"] = "running"
    /\ current["w1"] = current["w2"]
    /\ current["w1"] \in Range(observed["w1"]) \cap Range(observed["w2"])

\* the dependencies of a node that are in the graph
PresentDeps(id) == Range(DictGet(nodes, id).depends_on) \cap DictKeys(nodes)

\* the nodes reachable from S along one or more dependency edges
RECURSIVE DepClosure(_, _)
DepClosure(S, n) ==
    IF n = 0 THEN {}
    ELSE LET step == UNION {PresentDeps(id) : id \in S}
         IN  step \cup DepClosure(step, n - 1)

OnCycle(id) == id \in DepClosure({id}, Len(nodes))

\* on a dependency cycle, or depending on one through any number of edges
Starved ==
    {id \in DictKeys(nodes) :
        OnCycle(id) \/ \E dep \in DepClosure({id}, Len(nodes)) : OnCycle(dep)}

\* C4: on a plan with a dependency cycle, under a driver that marks only what
\* get_ready_tasks returned, a node on the cycle or depending on it is never returned,
\* never dispatched, and stays Pending.
C4_CycleStarves ==
    \A id \in Starved :
        /\ DictGet(nodes, id).status = PENDING
        /\ id \notin Range(Ids(get_ready_tasks(Graph)))
        /\ id \notin Range(observed["w1"])
        /\ id \notin Range(dispatched["w1"])

\* C4 witness: the driver has completed the one node outside the cycle and has nothing
\* left to run, while a node on a cycle and a node that depends on it are still Pending.
C4_Witness ==
    /\ wpc["w1"] = "observed"
    /\ observed["w1"] = <<>>
    /\ \E a \in Starved, b \in Starved, c \in DictKeys(nodes) :
          /\ OnCycle(a)
          /\ ~OnCycle(b)
          /\ DictGet(nodes, c).status = COMPLETED
          /\ c \in Range(DictGet(nodes, a).depends_on)

-----------------------------------------------------------------------------
(* Claims about MessageBus: send and broadcast                             *)

\* one invocation per handler registered for agent_id, in subscription order
DueTo(agent_id, message) ==
    [i \in DOMAIN HandlersOf(subscribers, agent_id) |->
        [agent |-> agent_id, handler |-> HandlersOf(subscribers, agent_id)[i],
         message |-> message]]

\* the invocations due from the entries k.. of the subscriber dict, the sender's left out
RECURSIVE DueFrom(_, _)
DueFrom(k, message) ==
    IF k > Len(subscribers) THEN <<>>
    ELSE (IF subscribers[k].id = message.sender THEN <<>>
          ELSE DueTo(subscribers[k].id, message)) \o DueFrom(k + 1, message)

Crashes(invocations) == Cardinality({i \in DOMAIN invocations : invocations[i].handler = "crash"})

\* C6: send(message) invokes the handlers registered for message.recipient, each once, in
\* subscription order, with the message as given, and no handler of another agent id;
\* with none registered it invokes nobody; and it does not fail.
C6_SendDeliversToRecipientInOrder ==
    lastCall.kind = "send" =>
        /\ received = DueTo(lastCall.message[1].recipient, lastCall.message[1])
        /\ \A i \in DOMAIN received :
              /\ received[i].agent = lastCall.message[1].recipient
              /\ received[i].message = lastCall.message[1]
        /\ ~lastCall.raised

\* C6 witness: a send to an agent with two different handlers invoked both, in the order
\* they were subscribed, while another agent's handler was not invoked.
C6_Witness ==
    /\ lastCall.kind = "send"
    /\ Len(received) = 2
    /\ received[1].handler # received[2].handler
    /\ received[1].handler = HandlersOf(subscribers, lastCall.message[1].recipient)[1]
    /\ \E k \in DOMAIN subscribers :
          subscribers[k].id # lastCall.message[1].recipient /\ subscribers[k].handlers # <<>>

\* C7: in send and in broadcast a failing handler is isolated: whichever handlers fail,
\* every handler due is invoked, each failure is caught (and logged), and none reaches
\* the caller.
C7_HandlerFailureIsolated ==
    lastCall.kind \in {"send", "broadcast"} =>
        LET due == IF lastCall.kind = "send"
                   THEN DueTo(lastCall.message[1].recipient, lastCall.message[1])
                   ELSE DueFrom(1, lastCall.message[1])
        IN  /\ ~lastCall.raised
            /\ \A i \in DOMAIN due : i \in DOMAIN received /\ received[i] = due[i]
            /\ lastCall.errors = Crashes(due)

\* C7 witness: as in test_handler_error_safety, the first handler of the recipient raised
\* and the second one was still invoked; nothing reached the caller of send.
C7_Witness ==
    /\ lastCall.kind = "send"
    /\ ~lastCall.raised
    /\ lastCall.errors = 1
    /\ Len(received) = 2
    /\ received[1].handler = "crash"
    /\ received[2].handler = "rec"

\* C8: broadcast(message) invokes every handler of every subscribed agent id other than
\* message.sender once, and no handler subscribed under message.sender, whatever
\* message.recipient is.
C8_BroadcastSkipsSender ==
    lastCall.kind = "broadcast" =>
        /\ received = DueFrom(1, lastCall.message[1])
        /\ \A i \in DOMAIN received : received[i].agent # lastCall.message[1].sender
        /\ \A k \in DOMAIN subscribers :
              subscribers[k].id # lastCall.message[1].sender =>
                 Cardinality({i \in DOMAIN received : received[i].agent = subscribers[k].id})
                    = Len(subscribers[k].handlers)

\* C8 witness: a broadcast whose recipient field names the sender itself, sent by an agent
\* that has a handler of its own, reached the handlers of the two other agents only.
C8_Witness ==
    /\ lastCall.kind = "broadcast"
    /\ lastCall.message[1].recipient = lastCall.message[1].sender
    /\ HandlersOf(subscribers, lastCall.message[1].sender) # <<>>
    /\ Len(received) = 2
    /\ received[1].agent # received[2].agent

-----------------------------------------------------------------------------
(* Claims about MessageBus: request and respond                            *)

\* the respond calls for cid that found its slot in the registry, in order
WithSlot(cid) == SelectSeq(responds[cid], LAMBDA r : r.slot)

\* C9: a request answered by respond(original, c) before its timeout returns a Response
\* whose sender is the request's recipient, whose recipient is the request's sender,
\* whose content is c, and whose correlation_id is the one the bus attached to the request.
C9_ResponseMirrorsRequest ==
    \A cid \in Cids :
        calls[cid].pc = "returned" =>
            /\ calls[cid].message[1].correlation_id = cid
            /\ WithSlot(cid) # <<>>
            /\ calls[cid].response =
                  <<[sender |-> calls[cid].message[1].recipient,
                     recipient |-> calls[cid].message[1].sender,
                     message_type |-> RESPONSE,
                     content |-> WithSlot(cid)[1].content,
                     correlation_id |-> calls[cid].message[1].correlation_id]>>

\* C9 witness: test_request_response_cycle: the request "Hello" of the orchestrator to
\* agent_a came back as "Echo: Hello" from agent_a to the orchestrator.
C9_Witness ==
    \E cid \in Cids :
        /\ calls[cid].pc = "returned"
        /\ calls[cid].message[1].content = <<"Hello">>
        /\ calls[cid].response[1].content = <<"Echo: ", "Hello">>
        /\ calls[cid].response[1].sender = "agent_a"
        /\ calls[cid].response[1].recipient = "orchestrator"

\* a respond that cannot resolve anything: no correlation id, no slot, or a slot whose
\* Future is resolved already
Idle(original) ==
    \/ original.correlation_id = NoCid
    \/ original.correlation_id \notin pending_responses
    \/ futures[original.correlation_id].state # "pending"

\* C10: a slot is resolved at most once: the first respond that finds the slot decides
\* the Future's result and the response the requester gets, whatever responds follow; and
\* a respond for a resolved slot, for a correlation id without slot or for a message
\* without correlation id changes nothing on the bus.
C10_FirstRespondWins ==
    /\ [](\A cid \in Cids :
            /\ futures[cid].state = "done" =>
                  /\ WithSlot(cid) # <<>>
                  /\ futures[cid].result[1].content = WithSlot(cid)[1].content
            /\ calls[cid].pc = "returned" =>
                  calls[cid].response[1].content = WithSlot(cid)[1].content
            /\ futures[cid].state = "pending" => WithSlot(cid) = <<>>)
    /\ [][\A m \in Originals, c \in ResponseContents :
            (Respond(m, c) /\ Idle(m)) =>
                UNCHANGED <<subscribers, pending_responses, futures, calls, inbox>>]_vars

\* C10 witness: two responds with different contents found the slot of one request; the
\* requester got the content of the first.
C10_Witness ==
    \E cid \in Cids :
        /\ Len(WithSlot(cid)) = 2
        /\ WithSlot(cid)[1].content # WithSlot(cid)[2].content
        /\ calls[cid].pc = "returned"
        /\ calls[cid].response[1].content = WithSlot(cid)[1].content

\* the request calls that are in progress: made, and not yet exited
InProgress == {cid \in Cids : calls[cid].pc = "waiting"}

\* the request calls that have exited, with a response or with a failure
Exited == {cid \in Cids : calls[cid].pc \in {"returned", "timeout", "failed"}}

C12_UnansweredRequestTimesOut ==
    \A cid \in Cids :
        /\ (cid \in Exited /\ WithSlot(cid) = <<>>) =>
              /\ calls[cid].pc = "timeout"
              /\ calls[cid].error = "TimeoutError"
              /\ calls[cid].response = <<>>
        /\ calls[cid].pc = "timeout" =>
              /\ calls[cid].error = "TimeoutError"
              /\ calls[cid].response = <<>>
              /\ futures[cid].state = "cancelled"

\* C12 witness: the recipient's only handler raised on the request, nobody responded,
\* and the request ended with the timeout failure.
C12_Witness ==
    \E cid \in Cids :
        /\ calls[cid].pc = "timeout"
        /\ HandlersOf(subscribers, calls[cid].message[1].recipient) = <<"crash">>
        /\ calls[cid].error = "TimeoutError"
        /\ responds[cid] = <<>>

\* the request the message belongs to has timed out
TimedOut(original) ==
    /\ original.correlation_id \in Cids
    /\ calls[original.correlation_id].pc = "timeout"

\* C13: a respond for a request that has timed out resolves no slot and hands no
\* response to anyone: the registry, every Future, the timed-out call and every other
\* request call are as before, and the call that timed out never gets a response.
C13_LateRespondIsNoOp ==
    /\ [](\A cid \in Cids :
            calls[cid].pc = "timeout" =>
                /\ calls[cid].response = <<>>
                /\ futures[cid].state = "cancelled"
                /\ cid \notin pending_responses)
    /\ [][\A m \in Originals, c \in ResponseContents :
            (Respond(m, c) /\ TimedOut(m)) =>
                UNCHANGED <<subscribers, pending_responses, futures, calls, inbox>>]_vars

\* C13 witness: a respond came for a request after it had timed out and found no slot,
\* while another request was waiting with its Future unresolved.
C13_Witness ==
    \E late \in Cids, other \in Cids :
        /\ calls[late].pc = "timeout"
        /\ responds[late] # <<>>
        /\ ~responds[late][Len(responds[late])].slot
        /\ calls[other].pc = "waiting"
        /\ futures[other].state = "pending"

-----------------------------------------------------------------------------
(* Claims about CheckpointManager                                          *)

\* the graphs have the same node ids, the same fields for every node and the same root
SameGraph(g, h) ==
    /\ DictKeys(g.nodes) = DictKeys(h.nodes)
    /\ \A id \in DictKeys(g.nodes) :
          /\ DictGet(g.nodes, id).id = DictGet(h.nodes, id).id
          /\ DictGet(g.nodes, id).content = DictGet(h.nodes, id).content
          /\ DictGet(g.nodes, id).agent = DictGet(h.nodes, id).agent
          /\ DictGet(g.nodes, id).depends_on = DictGet(h.nodes, id).depends_on
          /\ DictGet(g.nodes, id).status = DictGet(h.nodes, id).status
          /\ DictGet(g.nodes, id).result = DictGet(h.nodes, id).result
    /\ g.root = h.root

\* C14: round trip: load(save(task_id, g, c)) returns, for every graph g and every
\* context c, a graph with the node ids, node fields and root of g, a context equal to
\* c, and the task id that was saved (stated for the saves that returned an id).
C14_RoundTripReproducesGraphAndContext ==
    (Len(saves) = 1 /\ saves[1].returned /\ lastStore.op = "load") =>
        /\ lastStore.error = None
        /\ lastStore.loaded # <<>>
        /\ SameGraph(lastStore.loaded[1].graph, saves[1].graph)
        /\ lastStore.loaded[1].context = saves[1].context
        /\ lastStore.loaded[1].task_id = saves[1].task_id
        /\ lastStore.loaded[1].checkpoint_id = saves[1].id

\* the ids that save calls for task_id returned and no delete has removed since
LiveIds(task_id) ==
    {saves[i].id : i \in {k \in DOMAIN saves : saves[k].task_id = task_id /\ saves[k].live}}

\* C15: after any saves and deletes, list_checkpoints(t) returns exactly the ids that
\* save calls with task_id = t returned and that were not deleted since; an id made by a
\* save for another task id never appears in it.
C15_ListIsExactlyTheTasksCheckpoints ==
    lastStore.op = "list" =>
        /\ Range(lastStore.listing) = LiveIds(lastStore.task_id)
        /\ \A i \in DOMAIN saves :
              saves[i].task_id # lastStore.task_id => saves[i].id \notin Range(lastStore.listing)

\* where id stands in the list
IndexIn(listing, id) == CHOOSE k \in DOMAIN listing : listing[k] = id

\* C16: list_checkpoints(task_id) returns the ids in the order the checkpoints were
\* created: the id of a save that completed before another save of the task started
\* comes before that save's id.
C16_ListInCreationOrder ==
    lastStore.op = "list" =>
        \A i \in DOMAIN saves, j \in DOMAIN saves :
            (/\ i < j
             /\ saves[i].task_id = lastStore.task_id /\ saves[j].task_id = lastStore.task_id
             /\ saves[i].live /\ saves[j].live
             /\ saves[i].id # saves[j].id
             /\ saves[i].id \in Range(lastStore.listing)
             /\ saves[j].id \in Range(lastStore.listing))
            => IndexIn(lastStore.listing, saves[i].id) < IndexIn(lastStore.listing, saves[j].id)

\* C17: load of an id that has no stored record, never saved or deleted, fails with
\* FileNotFoundError, returns nothing, and leaves the stored checkpoints as they were.
C17_LoadOfMissingIdFails ==
    (lastStore.op = "load" /\ lastStore.id \notin DOMAIN lastStore.before) =>
        /\ lastStore.error = "FileNotFoundError"
        /\ lastStore.loaded = <<>>
        /\ files = lastStore.before

\* C17 witness: a checkpoint was saved and deleted, another one is still stored, and the
\* load of the deleted id failed with FileNotFoundError.
C17_Witness ==
    /\ lastStore.op = "load"
    /\ lastStore.error = "FileNotFoundError"
    /\ lastStore.id \in SavedIds
    /\ lastStore.id \notin DOMAIN files
    /\ files # <<>>

\* C18: delete(checkpoint_id) returns True exactly when the record existed at the call;
\* afterwards the id is in no listing, its load fails, a second delete of it returns
\* False, and every other stored checkpoint is as before.
C18_DeleteRemovesOneRecord ==
    lastStore.op = "delete" =>
        /\ lastStore.removed = (lastStore.id \in DOMAIN lastStore.before)
        /\ \A task_id \in TaskIds : lastStore.id \notin Range(list_checkpoints(files, task_id))
        /\ load(files, lastStore.id).error = "FileNotFoundError"
        /\ ~delete(files, lastStore.id).removed
        /\ DOMAIN files = DOMAIN lastStore.before \ {lastStore.id}
        /\ \A n \in DOMAIN files : files[n] = lastStore.before[n]

\* C18 witness: delete removed one of two stored checkpoints and returned True; the
\* other one is still stored.
C18_Witness ==
    /\ lastStore.op = "delete"
    /\ lastStore.removed
    /\ Cardinality(DOMAIN lastStore.before) = 2
    /\ Cardinality(DOMAIN files) = 1

-----------------------------------------------------------------------------
(* Claims about ErrorRecovery                                              *)

\* the rules whose pattern matches the lower-cased description of the analyzed error
MatchingRules ==
    {k \in DOMAIN ERROR_PATTERNS : search(ERROR_PATTERNS[k].pattern, lower(analysis.error))}

\* the first of them in table order
FirstRule == CHOOSE k \in MatchingRules : \A j \in MatchingRules : k <= j

\* what the design's table gives for each rule, in table order: rate limit, timeout,
\* network, permission, not found, invalid
TableOutcomes ==
    <<[strategy |-> RETRY, wait |-> 30], [strategy |-> RETRY, wait |-> 5],
      [strategy |-> RETRY, wait |-> 10], [strategy |-> HUMAN_HELP, wait |-> 0],
      [strategy |-> HUMAN_HELP, wait |-> 0], [strategy |-> FALLBACK, wait |-> 0]>>

\* C19: analyze classifies an error by the first rule, in table order, whose pattern
\* matches the lower-cased description, also when several rules match, and with
\* attempt_count not above the retry ceiling gives that rule's strategy and wait: Retry
\* 30 for rate limit, Retry 5 for timeout, Retry 10 for network, HumanHelp 0 for
\* permission and for not found, Fallback 0 for invalid.
C19_FirstMatchingRuleDecides ==
    (analysis.result # <<>> /\ MatchingRules # {} /\ analysis.attempt_count <= max_retries) =>
        /\ analysis.result[1].strategy = TableOutcomes[FirstRule].strategy
        /\ analysis.result[1].wait_seconds = TableOutcomes[FirstRule].wait

\* C19 witness: "Connection Timeout" matches the timeout rule and the network rule; the
\* result is the timeout rule's: Retry with wait 5.
C19_Witness ==
    /\ analysis.error = <<"Connection", "Timeout">>
    /\ MatchingRules = {2, 3}
    /\ analysis.result[1].strategy = RETRY
    /\ analysis.result[1].wait_seconds = 5

\* C20: when the matched rule's strategy is Retry, analyze returns Retry with the rule's
\* positive wait if attempt_count <= max_retries, and Fallback with wait 0 and a
\* suggested action naming a fallback model or method if attempt_count > max_retries,
\* whichever Retry rule matched.
C20_RetryEscalatesToFallback ==
    (analysis.result # <<>> /\ MatchingRules # {}
        /\ TableOutcomes[FirstRule].strategy = RETRY) =>
        IF analysis.attempt_count <= max_retries
        THEN /\ analysis.result[1].strategy = RETRY
             /\ analysis.result[1].wait_seconds = TableOutcomes[FirstRule].wait
             /\ analysis.result[1].wait_seconds > 0
        ELSE /\ analysis.result[1].strategy = FALLBACK
             /\ analysis.result[1].wait_seconds = 0
             /\ analysis.result[1].suggested_action = <<"Use fallback model or method">>

\* C20 witness: test_error_recovery_suggests_fallback_after_retries: "Rate limit" at
\* attempt 4 with max_retries 3 gives Fallback, and a message about an alternative.
C20_Witness ==
    /\ analysis.error = <<"Rate", "limit">>
    /\ max_retries = DefaultMaxRetries
    /\ analysis.attempt_count = max_retries + 1
    /\ analysis.result[1].strategy = FALLBACK
    /\ analysis.result[1].user_message[5] = "Trying alternative approach."

\* the question of the analyzed result, and the part of it between the opening quote and
\* the closing "...'" when no rule matched
Question == analysis.result[1].question_for_user

Embedded == SubSeq(Question[1], 3, Len(Question[1]) - Len(analysis.error) - 2)

\* C21: every result of analyze whose strategy is HumanHelp carries a non-empty
\* question_for_user, when a permission or not-found rule matched and when no rule
\* matched; in the latter case the question embeds the first 50 characters of
\* task_content at most; a result with any other strategy carries no question.
C21_HumanHelpCarriesQuestion ==
    analysis.result # <<>> =>
        /\ analysis.result[1].strategy = HUMAN_HELP => (Question # <<>> /\ Question[1] # <<>>)
        /\ analysis.result[1].strategy # HUMAN_HELP => Question = <<>>
        /\ MatchingRules = {} =>
              /\ analysis.result[1].strategy = HUMAN_HELP
              /\ Len(Embedded) <= PreviewLen
              /\ Embedded = SubSeq(analysis.task_content, 1, Len(Embedded))
              /\ Len(analysis.task_content) <= PreviewLen => Embedded = analysis.task_content
              /\ Question[1][2] = "'"
              /\ Question[1][3 + Len(Embedded)] = "...': "

\* C21 witness: an unknown error ("disk") on a task of 51 characters: HumanHelp, and the
\* question quotes 50 of them.
C21_Witness ==
    /\ analysis.error = <<"disk">>
    /\ Len(analysis.task_content) = PreviewLen + 1
    /\ analysis.result[1].strategy = HUMAN_HELP
    /\ Len(Embedded) = PreviewLen

\* a permission error: HumanHelp from the matched rule, the question quoting the error
C21_MatchedRuleAsks ==
    /\ analysis.error = <<"permission">>
    /\ analysis.result[1].strategy = HUMAN_HELP
    /\ Question = <<<<"I encountered an issue: ", "permission", ". ",
                      "Can you help resolve this or provide an alternative?">>>>

-----------------------------------------------------------------------------
(* Claims about ReflectionLoop                                             *)

\* the feedbacks before the last one all carry the marker
RejectedBefore(n) == \A i \in 1..(n - 1) : needs_improvement(asked[i])

\* the evaluator omitted the marker for the first time at attempt k
FirstApprovalAt(k) ==
    /\ Len(asked) = k + 1
    /\ RejectedBefore(k + 1)
    /\ ~needs_improvement(asked[k + 1])

\* the evaluator asked for improvement at every attempt, max_retries + 1 of them
AlwaysRejected ==
    /\ Len(asked) = loop.max_retries + 1
    /\ \A i \in DOMAIN asked : needs_improvement(asked[i])

Returned == reflection.returned[1]

\* C22: with an execute_fn, when the evaluator first omits the marker at attempt k,
\* 0 <= k <= max_retries, reflect returns approved, retry_count k, the k rejecting
\* feedbacks in order as feedback_history (without the approving one), and as
\* final_result what the k-th execute_fn call returned (the initial result for k = 0).
C22_ApprovalAtAttemptK ==
    \A k \in 0..loop.max_retries :
        (reflection.execute_fn /\ FirstApprovalAt(k)) =>
            /\ reflection.pc = "returned"
            /\ Returned.approved
            /\ Returned.retry_count = k
            /\ Returned.feedback_history = SubSeq(asked, 1, k)
            /\ Len(produced) = k
            /\ Returned.final_result = IF k = 0 THEN reflection.result ELSE produced[k]

\* C22 witness: test_reflection_loop_retries_on_issues with max_retries 2: rejected
\* once, improved to "Attempt 1", then approved with retry_count 1.
C22_Witness ==
    /\ loop.max_retries = 2
    /\ reflection.execute_fn
    /\ FirstApprovalAt(1)
    /\ produced = <<"Attempt 1">>
    /\ Returned.approved
    /\ Returned.retry_count = 1
    /\ Returned.final_result = "Attempt 1"
    /\ Returned.feedback_history = <<<<MARKER, " Missing explanation">>>>

\* C23 as stated: with an execute_fn and a rejection at every attempt, reflect returns
\* not approved, retry_count max_retries, max_retries + 1 feedbacks, and as final_result
\* the value the last execute_fn call returned.
C23_ExhaustionReturnsLastCall ==
    (reflection.execute_fn /\ AlwaysRejected) =>
        /\ reflection.pc = "returned"
        /\ ~Returned.approved
        /\ Returned.retry_count = loop.max_retries
        /\ Len(Returned.feedback_history) = loop.max_retries + 1
        /\ produced # <<>>
        /\ Returned.final_result = produced[Len(produced)]

\* C23 amended: with an execute_fn and a rejection at every attempt, reflect returns not
\* approved, retry_count max_retries, the max_retries + 1 rejecting feedbacks in order,
\* and as final_result the last produced result: what the last execute_fn call returned
\* when max_retries > 0, the initial result when max_retries = 0, where execute_fn is
\* never called.
C23_ExhaustionReturnsLastProduced ==
    (reflection.execute_fn /\ AlwaysRejected) =>
        /\ reflection.pc = "returned"
        /\ ~Returned.approved
        /\ Returned.retry_count = loop.max_retries
        /\ Returned.feedback_history = asked
        /\ Len(Returned.feedback_history) = loop.max_retries + 1
        /\ loop.max_retries = 0 => (produced = <<>> /\ Returned.final_result = reflection.result)
        /\ loop.max_retries > 0 =>
              (produced # <<>> /\ Returned.final_result = produced[Len(produced)])

\* C23 witness: test_reflection_loop_fails_after_max_retries: max_retries 2, three
\* rejections, "Attempt 1" then "Attempt 2" produced, "Attempt 2" returned.
C23_Witness ==
    /\ loop.max_retries = 2
    /\ reflection.execute_fn
    /\ AlwaysRejected
    /\ produced = <<"Attempt 1", "Attempt 2">>
    /\ ~Returned.approved
    /\ Returned.retry_count = 2
    /\ Returned.final_result = "Attempt 2"
    /\ Len(Returned.feedback_history) = 3

\* max_retries 0 with an execute_fn: one rejection, no execute_fn call, the initial
\* result returned
C23_NoRetryAllowed ==
    /\ loop.max_retries = 0
    /\ reflection.execute_fn
    /\ AlwaysRejected
    /\ produced = <<>>
    /\ Returned.final_result = reflection.result

\* C24: without an execute_fn, if the first evaluation asks for improvement the
\* evaluator is asked exactly once and reflect returns not approved, retry_count 0, the
\* initial result and a feedback_history of length 1, for every max_retries >= 0.
C24_NoImproverStopsAtFirstRejection ==
    (~reflection.execute_fn /\ asked # <<>> /\ needs_improvement(asked[1])) =>
        /\ reflection.pc = "returned"
        /\ Len(asked) = 1
        /\ produced = <<>>
        /\ ~Returned.approved
        /\ Returned.retry_count = 0
        /\ Returned.final_result = reflection.result
        /\ Returned.feedback_history = <<asked[1]>>

\* C24 witness: test_reflection_loop_returns_early_without_execute_fn with max_retries
\* 2: one rejection, one feedback, retry_count 0.
C24_Witness ==
    /\ loop.max_retries = MaxLoopRetries
    /\ ~reflection.execute_fn
    /\ reflection.pc = "returned"
    /\ asked = <<<<MARKER, " Still wrong">>>>
    /\ ~Returned.approved
    /\ Returned.retry_count = 0
    /\ Len(Returned.feedback_history) = 1

-----------------------------------------------------------------------------
(* Claims about FallbackChain                                              *)

\* the entries the call made last tried, in the order it tried them
Tried == chain_call.attempts

\* the call made last ended with an entry that answered
Answered == Tried # <<>> /\ Tried[Len(Tried)].error = <<>>

\* the exceptions raised by the entries during the call made last
Failures == {Tried[i].error[1] : i \in {j \in DOMAIN Tried : Tried[j].error # <<>>}}

\* C25: call tries the configured entries in list order, each at most once; an entry
\* that fails at adapter resolution, model creation or invocation makes the call move on
\* to the next entry; at the first entry that succeeds the call sets last_used_provider
\* to its provider, returns its reply (the first message of the response, or the
\* response when it has none) and tries no later entry.
C25_FirstSuccessfulEntryAnswers ==
    chain_call.count > 0 =>
        /\ Len(Tried) <= Len(chain.models)
        /\ \A i \in DOMAIN Tried :
              /\ Tried[i].provider = chain.models[i].provider
              /\ Tried[i].model = chain.models[i].model
              /\ i < Len(Tried) => Tried[i].error # <<>>
              /\ (Tried[i].error # <<>> /\ i < Len(chain.models)) => i < Len(Tried)
              /\ Tried[i].error # <<>> =>
                    Tried[i].reached \in {"get_adapter", "create_model", "step"}
        /\ Answered =>
              LET last == Tried[Len(Tried)]
              IN  /\ chain.last_used_provider = last.provider
                  /\ chain_call.raised = <<>>
                  /\ Len(chain_call.returned) = 1
                  /\ IF last.response[1].has_msgs /\ last.response[1].msgs # <<>>
                     THEN chain_call.returned[1].msg = <<last.response[1].msgs[1]>>
                     ELSE chain_call.returned[1].response = last.response

\* C25 witness: test_fallback_tries_next_on_failure: primary raises "Rate limit" at
\* step, fallback answers "Success"; the message is returned and last_used_provider is
\* "fallback".
C25_Witness ==
    /\ chain.models = SubSeq(Configured, 1, 2)
    /\ Len(Tried) = 2
    /\ Tried[1].reached = "step"
    /\ Tried[1].error # <<>>
    /\ Tried[1].error[1].text = "Rate limit"
    /\ Answered
    /\ chain_call.returned = <<[msg |-> <<"Success">>, response |-> <<>>]>>
    /\ chain.last_used_provider = "fallback"

\* C26: if every entry fails, the chain with no entries included, call raises one
\* ModelCallError, after it has tried every entry, whose message lists the (provider,
\* model, error) of every entry tried in the order tried; it returns no value.
C26_AllFailedRaisesWithEveryError ==
    (chain_call.count > 0 /\ ~Answered) =>
        /\ Len(Tried) = Len(chain.models)
        /\ chain_call.returned = <<>>
        /\ Len(chain_call.raised) = 1
        /\ chain_call.raised[1].type = "ModelCallError"
        /\ LET text == chain_call.raised[1].text
               n == Len(Tried)
           IN  /\ Len(text) = IF n = 0 THEN 1 ELSE 6 * n
               /\ text[1] = "All models failed: "
               /\ \A i \in 1..n :
                     /\ i > 1 => text[6 * i - 5] = "; "
                     /\ text[6 * i - 4] = Tried[i].provider
                     /\ text[6 * i - 3] = "/"
                     /\ text[6 * i - 2] = Tried[i].model
                     /\ text[6 * i - 1] = ": "
                     /\ text[6 * i] = Tried[i].error[1].text

\* C26 witness: test_fallback_raises_after_all_fail: a/m1 and b/m2 both raise at step;
\* the ModelCallError names both, a/m1 first.
C26_Witness ==
    /\ chain.models = SubSeq(Configured, 3, 4)
    /\ Len(Tried) = 2
    /\ Tried[1].reached = "step"
    /\ Tried[2].reached = "step"
    /\ chain_call.returned = <<>>
    /\ chain_call.raised # <<>>
    /\ chain_call.raised[1].text =
           <<"All models failed: ", "a", "/", "m1", ": ", "Rate limit", "; ",
             "b", "/", "m2", ": ", "Rate limit">>

\* C28: after each call on a chain, last_used_provider and last_error describe that
\* call: after a call that succeeded, last_used_provider is the provider that answered
\* and last_error is a failure of that same call, or unset if it had none; after a call
\* in which every entry failed, last_error is that call's last failure and
\* last_used_provider names no provider of an earlier call.
C28_FieldsDescribeLastCall ==
    chain_call.count > 0 =>
        /\ Answered =>
              /\ chain.last_used_provider = Tried[Len(Tried)].provider
              /\ Failures = {} => chain.last_error = <<>>
              /\ Failures # {} => (chain.last_error # <<>> /\ chain.last_error[1] \in Failures)
        /\ ~Answered =>
              /\ Tried # <<>> => chain.last_error = Tried[Len(Tried)].error
              /\ chain.last_used_provider = None

\* a second call that succeeds at its first entry after a call that failed: last_error
\* is still the exception of the first call
C28_StaleError ==
    /\ chain_call.count = 2
    /\ Answered
    /\ Failures = {}
    /\ chain.last_error # <<>>
    /\ chain.last_error[1].at[1] = 1

\* a second call in which every entry fails after a call that was answered:
\* last_used_provider is still the provider of the first call
C28_StaleProvider ==
    /\ chain_call.count = 2
    /\ ~Answered
    /\ chain.last_used_provider # None
    /\ chain.last_used_provider = chain_call.before[1].last_used_provider

-----------------------------------------------------------------------------
(* Claims about the status setters                                         *)

\* the status each setter leaves
StatusSet ==
    [mark_running |-> RUNNING, mark_complete |-> COMPLETED, mark_failed |-> FAILED]

\* the last call was a setter on a node of the graph
SetterOnPresent == lastOp.op \in DOMAIN StatusSet /\ lastOp.before # <<>>

\* C27: mark_running, mark_complete and mark_failed are unconditional setters: on a
\* node id of the graph, whatever the node's status, the call does not fail and leaves
\* the node Running, Completed or Failed respectively; on an id that is not in the graph
\* the call does not fail and leaves the whole graph as it was.
C27_SettersAreUnconditional ==
    /\ [](\A id \in MarkIds :
              /\ ENABLED MarkRunning(id)
              /\ ENABLED MarkComplete(id, None)
              /\ ENABLED MarkFailed(id))
    /\ [](SetterOnPresent => DictGet(nodes, lastOp.id).status = StatusSet[lastOp.op])
    /\ [][\A id \in MarkIds :
              ((MarkRunning(id) \/ MarkFailed(id) \/ \E r \in Results \cup {None} : MarkComplete(id, r))
                  /\ ~DictHas(nodes, id)) => UNCHANGED <<nodes, root>>]_vars

\* C27 witness: mark_failed on a node found Completed: the node is Failed.
C27_Witness ==
    /\ lastOp.op = "mark_failed"
    /\ lastOp.before # <<>>
    /\ lastOp.before[1] = COMPLETED
    /\ DictGet(nodes, lastOp.id).status = FAILED

\* mark_running on an id that is not in the graph, which is as it was built
C27_AbsentId ==
    /\ lastOp.op = "mark_running"
    /\ lastOp.id = AbsentId
    /\ lastOp.before = <<>>
    /\ nodes = TestGraph.nodes

-----------------------------------------------------------------------------
(* Claims about the ids save generates                                      *)

\* no delete has removed what a save stored
NothingDeleted == \A i \in DOMAIN saves : saves[i].live

\* C29: every save creates a new record under an id distinct from every id already
\* stored: after k saves, of the same or of different task ids, and no delete, the store
\* holds k records, and no save has overwritten the record of an earlier one.
C29_EverySaveAddsARecord ==
    NothingDeleted =>
        /\ Cardinality(DOMAIN files) = Len(saves)
        /\ \A i, j \in DOMAIN saves : i # j => saves[i].id # saves[j].id

\* two saves of one task in the same second for which uuid4 gives the same eight hex
\* digits: one id, one file
C29_SameIdTwice ==
    /\ Len(saves) = 2
    /\ NothingDeleted
    /\ saves[1].id = saves[2].id
    /\ Cardinality(DOMAIN files) = 1

-----------------------------------------------------------------------------
(* A driver taking an acyclic graph to completion                           *)

\* ready = graph.get_ready_tasks(); graph.mark_running(node_id) for a node of ready
Take(node_id) ==
    /\ node_id \in Range(Ids(get_ready_tasks(Graph)))
    /\ MarkRunning(node_id)
    /\ lastOp' = Call("mark_running", node_id, None)

\* the task of a Running node is done: graph.mark_complete(node_id, result)
Complete(node_id, result) ==
    /\ DictHas(nodes, node_id)
    /\ DictGet(nodes, node_id).status = RUNNING
    /\ MarkComplete(node_id, result)
    /\ lastOp' = Call("mark_complete", node_id, result)

\* any plan without a dependency cycle, every dependency id being a node of the plan
InitProgress ==
    /\ InitDriver
    /\ \A id \in DictKeys(nodes) : ~OnCycle(id)

NextProgress ==
    \/ \E id \in NodeIds : Take(id) /\ UNCHANGED <<bvars, others>>
    \/ \E id \in NodeIds, r \in Results : Complete(id, r) /\ UNCHANGED <<bvars, others>>

\* the driver goes on as long as it has a node to take or a node to complete
SpecProgress == InitProgress /\ [][NextProgress]_vars /\ WF_vars(NextProgress)

StatusOf(id) == DictGet(nodes, id).status

AllCompleted == \A id \in DictKeys(nodes) : StatusOf(id) = COMPLETED

NoneRunning == \A id \in DictKeys(nodes) : StatusOf(id) # RUNNING

\* C30: on an acyclic graph whose dependency ids are all present, a driver that keeps
\* taking a node from get_ready_tasks, marking it Running and then Completed, reaches a
\* state where every node is Completed; until then get_ready_tasks is non-empty whenever
\* no node is Running; and no node is marked Running before all its dependencies are
\* Completed.
C30_AcyclicGraphCompletes ==
    /\ <>AllCompleted
    /\ []((~AllCompleted /\ NoneRunning) => get_ready_tasks(Graph) # <<>>)
    /\ [][\A id \in DictKeys(nodes) :
              (StatusOf(id) # RUNNING /\ DictGet(nodes', id).status = RUNNING) =>
                  \A dep \in Range(DictGet(nodes, id).depends_on) :
                      DictHas(nodes, dep) /\ StatusOf(dep) = COMPLETED]_vars

\* C30 witness: the chain "1", "2" after "1", "3" after "1" and "2", every node
\* Completed, "3" last.
C30_Witness ==
    /\ DictGet(nodes, "2").depends_on = <<"1">>
    /\ DictGet(nodes, "3").depends_on = <<"1", "2">>
    /\ AllCompleted
    /\ lastOp.op = "mark_complete"
    /\ lastOp.id = "3"

-----------------------------------------------------------------------------
(* Two workers on any acyclic plan, tasks ending well or badly              *)

SpecCrew == InitProgress /\ [][NextWorkers]_vars

\* the nodes that depend on id through one or more dependency edges
Dependents(id) == {d \in DictKeys(nodes) : id \in DepClosure({d}, Len(nodes))}

FailedNodes == {id \in DictKeys(nodes) : StatusOf(id) = FAILED}

\* get_ready_tasks returns no node with a dependency that is not Completed
ReadyHaveDepsCompleted ==
    \A i \in DOMAIN get_ready_tasks(Graph) :
        \A dep \in Range(get_ready_tasks(Graph)[i].depends_on) :
            DictHas(nodes, dep) /\ StatusOf(dep) = COMPLETED

\* every mark made so far was made by one and the same worker
SoleDriver == \E w \in Workers : dispatched[w] = <<>>

\* C31 as stated: a node with a dependency that is Failed, Running or Pending is never
\* returned by get_ready_tasks; once a node is Failed, and for as long as it is, every
\* node that transitively depends on it is Pending, and the graph is not all-Completed.
C31_FailureStarvesDependents ==
    /\ ReadyHaveDepsCompleted
    /\ \A f \in FailedNodes : \A d \in Dependents(f) : StatusOf(d) = PENDING
    /\ FailedNodes # {} => ~AllCompleted

\* C31 amended: a node with a dependency that is Failed, Running or Pending is never
\* returned by get_ready_tasks, and the graph is not all-Completed while a node is
\* Failed; when one driver alone marks the nodes, each from the ready list it fetched
\* last, every node that transitively depends on a Failed node is Pending for as long as
\* that node is Failed. (With two workers a Completed node can be dispatched again from
\* a stale list and marked Failed after its dependents were started.)
C31_FailureStarvesDependentsOfSoleDriver ==
    /\ ReadyHaveDepsCompleted
    /\ FailedNodes # {} => ~AllCompleted
    /\ SoleDriver => \A f \in FailedNodes : \A d \in Dependents(f) : StatusOf(d) = PENDING

\* C31 witness: the chain "2" after "1", "3" after "2"; one worker ran "1", which
\* failed, asked again and got an empty ready list; "2" and "3" are Pending.
C31_Witness ==
    /\ DictGet(nodes, "2").depends_on = <<"1">>
    /\ DictGet(nodes, "3").depends_on = <<"2">>
    /\ dispatched = [w \in Workers |-> IF w = "w1" THEN <<"1">> ELSE <<>>]
    /\ StatusOf("1") = FAILED
    /\ wpc["w1"] = "observed"
    /\ observed["w1"] = <<>>
    /\ StatusOf("2") = PENDING
    /\ StatusOf("3") = PENDING

\* two workers: "1" was Completed and "2" started, then "1" was dispatched again from a
\* stale ready list and failed
C31_FailedAfterDependentStarted ==
    /\ StatusOf("1") = FAILED
    /\ "1" \in Range(DictGet(nodes, "2").depends_on)
    /\ StatusOf("2") \in {RUNNING, COMPLETED}
    /\ ~SoleDriver

-----------------------------------------------------------------------------
(* A driver, a checkpoint of its graph, a crash, and the driver resuming    *)
(* on the graph load returns                                                *)

\* the task id the run is checkpointed under
RunTask == <<"t", "a", "s", "k">>

\* manager.save("task", graph, {}) at some point of the run, once
Checkpoint ==
    /\ saves = <<>>
    /\ Save(RunTask, Graph, PyDict(<<>>), Repeat("0", HexLen))

\* the process restarts: what the driver held in memory is gone, and the graph is
\* manager.load(checkpoint_id)["graph"]
Restart(checkpoint_id) ==
    /\ lastStore.op # "load"
    /\ Load(checkpoint_id)
    /\ load(files, checkpoint_id).loaded # <<>>
    /\ SetGraph(load(files, checkpoint_id).loaded[1].graph)
    /\ wpc' = [w \in Workers |-> "idle"]
    /\ observed' = [w \in Workers |-> <<>>]
    /\ current' = [w \in Workers |-> None]
    /\ dispatched' = [w \in Workers |-> <<>>]
    /\ UNCHANGED <<firstRootless, lastOp>>

\* one driver whose tasks all end well, on any acyclic plan
NextResume ==
    \/ Observe("w1") /\ UNCHANGED <<bvars, others>>
    \/ NothingReady("w1") /\ UNCHANGED <<bvars, others>>
    \/ \E i \in 1..Len(IdOrder) : Dispatch("w1", i) /\ UNCHANGED <<bvars, others>>
    \/ \E r \in Results : FinishComplete("w1", r) /\ UNCHANGED <<bvars, others>>
    \/ Checkpoint /\ UNCHANGED <<gwvars, bvars, evars, lvars>>
    \/ \E id \in SavedIds : Restart(id) /\ UNCHANGED <<bvars, evars, lvars>>

SpecResume == InitProgress /\ [][NextResume]_vars

\* the driver is running on a restored graph
Resumed == lastStore.op = "load"

\* the ids of the nodes with the given status in the graph that was checkpointed
SavedWith(status) ==
    {saves[1].graph.nodes[i].id :
        i \in {j \in DOMAIN saves[1].graph.nodes : saves[1].graph.nodes[j].status = status}}

\* the resumed driver has something to do: a node is ready, or it is executing one
CanProceed == get_ready_tasks(Graph) # <<>> \/ wpc["w1"] = "running"

\* C32: if a checkpoint is saved at any point of a driver's run over an acyclic graph
\* and the graph is later restored with load, the driver resuming on the restored graph
\* completes every node (until every node is Completed it has a ready node to take or
\* is executing one), and never dispatches again a node that was Completed in the
\* checkpoint.
C32_ResumedDriverCompletes ==
    Resumed =>
        /\ ~AllCompleted => CanProceed
        /\ Range(dispatched["w1"]) \cap SavedWith(COMPLETED) = {}

\* a checkpoint taken while no node was Running: the resumed driver always has
\* something to do until every node is Completed
C32_QuiescentCheckpointResumes ==
    (Resumed /\ SavedWith(RUNNING) = {}) =>
        /\ ~AllCompleted => CanProceed
        /\ Range(dispatched["w1"]) \cap SavedWith(COMPLETED) = {}

\* the checkpoint was taken while "1" was Running: on the restored graph "1" is
\* Running, nobody executes it, and nothing is ready
C32_OrphanedRunningNode ==
    /\ Resumed
    /\ SavedWith(RUNNING) = {"1"}
    /\ StatusOf("1") = RUNNING
    /\ wpc["w1"] = "observed"
    /\ observed["w1"] = <<>>
    /\ ~AllCompleted

\* every node Completed after a restart from a checkpoint in which "1" was Completed
C32_ResumedToCompletion ==
    /\ Resumed
    /\ SavedWith(COMPLETED) = {"1"}
    /\ AllCompleted
    /\ "1" \notin Range(dispatched["w1"])

-----------------------------------------------------------------------------
(* A graph that goes on changing after it was checkpointed                  *)

\* the ids of the graph that is checkpointed and changed
SnapshotIds == {"1", "2"}

\* {}, {"user_input": "original question"}, {"visited": ["a", "b"]}
SnapshotContexts ==
    {PyDict(<<>>),
     PyDict(<<PyItem("user_input", PyStr("original question"))>>),
     PyDict(<<PyItem("visited", PyList(<<PyStr("a"), PyStr("b")>>))>>)}

\* graph = manager.load(checkpoint_id)["graph"]: the caller goes on with the graph
\* load returned
Adopt(checkpoint_id) ==
    /\ Load(checkpoint_id)
    /\ load(files, checkpoint_id).loaded # <<>>
    /\ SetGraph(load(files, checkpoint_id).loaded[1].graph)
    /\ UNCHANGED <<firstRootless, lastOp, wvars>>

InitSnapshot ==
    /\ nodes = StoreGraph.nodes
    /\ root = StoreGraph.root
    /\ firstRootless = "1"
    /\ lastOp = NoOp
    /\ WorkersIdle
    /\ BusIdle
    /\ OthersIdle

\* one save of the graph as it is, loads of it, and add_node and mark_* calls on the
\* in-memory graph and on the graph load returned, in any order
NextSnapshot ==
    \/ AddNode(TaskNode("2", "task", "developer", <<"1">>)) /\ UNCHANGED <<lastOp, bvars, others>>
    \/ \E id \in SnapshotIds : MarkRunning(id) /\ UNCHANGED <<lastOp, bvars, others>>
    \/ \E id \in SnapshotIds : MarkComplete(id, "r1") /\ UNCHANGED <<lastOp, bvars, others>>
    \/ \E id \in SnapshotIds : MarkFailed(id) /\ UNCHANGED <<lastOp, bvars, others>>
    \/ /\ saves = <<>>
       /\ \E context \in SnapshotContexts : Save(RunTask, Graph, context, Repeat("0", HexLen))
       /\ UNCHANGED <<gwvars, bvars, evars, lvars>>
    \/ \E id \in SavedIds : Load(id) /\ UNCHANGED <<gwvars, bvars, evars, lvars>>
    \/ \E id \in SavedIds : Adopt(id) /\ UNCHANGED <<bvars, evars, lvars>>

SpecSnapshot == InitSnapshot /\ [][NextSnapshot]_vars

\* the graph a file written from graph reads back as
AsSaved(graph) == deserialize_graph(json_load(json_text(serialize_graph(graph))))

-----------------------------------------------------------------------------
\* the request calls made so far
Started == {cid \in Cids : calls[cid].pc # "none"}

\* the contents handed to respond with an original that carries correlation id cid
\* while the slot of cid was registered
RespondedTo(cid) ==
    {responds[cid][i].content : i \in {j \in DOMAIN responds[cid] : responds[cid][j].slot}}

\* C34: concurrent requests are independent: each request call has a correlation id
\* of its own, different from the id of every other call; the slot of a call is
\* resolved only by a respond whose original is the message that call sent; and a
\* request that returns a response returns one that carries its own correlation id.
C34_RequestsAreIndependent ==
    \A cid \in Started :
        /\ calls[cid].message[1].correlation_id = cid
        /\ \A other \in Started \ {cid} :
              calls[other].message[1].correlation_id # calls[cid].message[1].correlation_id
        /\ futures[cid].state = "done" =>
              /\ futures[cid].result[1].content \in RespondedTo(cid)
              /\ futures[cid].result[1].correlation_id = cid
        /\ calls[cid].pc = "returned" =>
              /\ calls[cid].response # <<>>
              /\ calls[cid].response[1].correlation_id = cid
              /\ calls[cid].response[1].content \in RespondedTo(cid)

\* two requests were waiting; the respond to the second one's message made the second
\* return with "A" while the first is still waiting on its unresolved slot
C34_Witness ==
    /\ calls[1].pc = "waiting"
    /\ futures[1].state = "pending"
    /\ responds[1] = <<>>
    /\ calls[2].pc = "returned"
    /\ calls[2].response[1].content = <<"A">>
    /\ calls[2].response[1].correlation_id = 2

-----------------------------------------------------------------------------
\* C35: request never exits before every handler registered for the recipient has
\* finished its invocation: when the call reaches its wait, each registered handler has
\* been invoked once with the message, in registration order, and a respond issued by
\* a handler during that is what the call returns, without a timeout.
C35_RequestWaitsAfterSend ==
    lastCall.kind = "request" =>
        LET sent == lastCall.message[1]
            cid == sent.correlation_id
            handlers == HandlersOf(subscribers, sent.recipient)
        IN  /\ calls[cid].pc # "none"
            /\ Len(received) = Len(handlers)
            /\ \A i \in DOMAIN handlers :
                  received[i].handler = handlers[i] /\ received[i].message = sent
            /\ (\E i \in DOMAIN handlers : handlers[i] = "echo") =>
                  /\ calls[cid].pc = "returned"
                  /\ calls[cid].response # <<>>
                  /\ calls[cid].response[1].content = Echo(sent.content)
            /\ (\A i \in DOMAIN handlers : handlers[i] # "echo") /\ responds[cid] = <<>> =>
                  calls[cid].pc \in {"waiting", "timeout"}

\* a recording handler and an echo handler: both ran, and the request returned the echo
C35_Witness ==
    /\ HandlersOf(subscribers, "agent_a") = <<"rec", "echo">>
    /\ lastCall.kind = "request"
    /\ Len(received) = 2
    /\ received[2].handler = "echo"
    /\ calls[1].pc = "returned"
    /\ calls[1].response[1].content = Echo(<<"Hello">>)

-----------------------------------------------------------------------------
\* an analyze call has been made
Analyzed == analysis # NoAnalysis

\* C36: for every error description, task_content and attempt_count, analyze returns
\* a result; its strategy is one of Retry, Fallback and HumanHelp, never Abort; its
\* user_message is not empty; and wait_seconds > 0 exactly when the strategy is Retry.
C36_AnalyzeIsTotal ==
    Analyzed =>
        /\ analysis.result # <<>>
        /\ analysis.result[1].strategy \in {RETRY, FALLBACK, HUMAN_HELP}
        /\ analysis.result[1].strategy # ABORT
        /\ analysis.result[1].user_message # <<>>
        /\ analysis.result[1].wait_seconds > 0 <=> analysis.result[1].strategy = RETRY

\* a timeout past the ceiling: Fallback, with nothing to wait for
C36_Witness ==
    /\ Analyzed
    /\ analysis.error = <<"Timeout">>
    /\ analysis.attempt_count > max_retries
    /\ analysis.result[1].strategy = FALLBACK
    /\ analysis.result[1].wait_seconds = 0

-----------------------------------------------------------------------------
(* A driver that retries for as long as analyze says Retry                  *)

\* the attempts the driver is followed for
MaxAttempts == MaxCeiling + 2

\* what the driver was attempting
RetriedTask == Repeat("a", 3)

\* the driver's attempt failed with error: it asks analyze what to do, counting the
\* attempts from 1
Failed(error, attempt_count) ==
    /\ analysis' = [error |-> error, task_content |-> RetriedTask,
                    attempt_count |-> attempt_count,
                    result |-> <<analyze(Recovery, error, RetriedTask, attempt_count)>>]
    /\ strategies' = Append(strategies, analyze(Recovery, error, RetriedTask, attempt_count).strategy)
    /\ UNCHANGED max_retries

\* the first attempt fails
FirstAttemptFails(error) ==
    /\ strategies = <<>>
    /\ Failed(error, 1)

\* told to retry, the driver tries again and fails in the same way
RetryFails ==
    /\ strategies # <<>>
    /\ strategies[Len(strategies)] = RETRY
    /\ analysis.attempt_count < MaxAttempts
    /\ Failed(analysis.error, analysis.attempt_count + 1)
    /\ UNCHANGED <<gwvars, bvars, svars, lvars>>

NextRetry ==
    \/ /\ strategies = <<>>
       /\ \E error \in Descriptions(MaxWords) : FirstAttemptFails(error)
       /\ UNCHANGED <<gwvars, bvars, svars, lvars>>
    \/ RetryFails

\* the driver's loop goes on as long as it is told to retry
SpecRetry == InitRecovery /\ [][NextRetry]_vars /\ WF_vars(RetryFails)

\* the strategy ERROR_PATTERNS gives the error: that of the first rule that matches,
\* HumanHelp if none does
ClassOf(error) ==
    LET hits == {k \in DOMAIN ERROR_PATTERNS : search(ERROR_PATTERNS[k].pattern, lower(error))}
    IN  IF hits = {} THEN HUMAN_HELP
        ELSE ERROR_PATTERNS[CHOOSE k \in hits : \A j \in hits : k <= j].strategy

\* the driver has been told something else than Retry
StoppedRetrying == strategies # <<>> /\ strategies[Len(strategies)] # RETRY

\* what the driver has been told so far is Retry max_retries times, then Fallback
RetriesThenFallback ==
    /\ Len(strategies) <= max_retries + 1
    /\ \A i \in DOMAIN strategies :
          strategies[i] = IF i <= max_retries THEN RETRY ELSE FALLBACK

\* the error gets its class's strategy whatever the attempt count
SameForEveryAttempt ==
    \A n \in 1..MaxAttempts :
        analyze(Recovery, analysis.error, RetriedTask, n).strategy = ClassOf(analysis.error)

\* C37: bounded retry: a driver that calls analyze with attempt_count = 1, 2, 3, ...
\* for a persistently transient error and retries while the strategy is Retry is told
\* Retry exactly max_retries times and then Fallback, so it always stops retrying;
\* an error classified HumanHelp or Fallback gets the same strategy for every
\* attempt_count.
C37_BoundedRetry ==
    /\ [](strategies # <<>> =>
            IF ClassOf(analysis.error) = RETRY
            THEN RetriesThenFallback
            ELSE strategies = <<ClassOf(analysis.error)>> /\ SameForEveryAttempt)
    /\ strategies # <<>> ~> StoppedRetrying
    /\ [](StoppedRetrying /\ ClassOf(analysis.error) = RETRY =>
            Len(strategies) = max_retries + 1)

\* a timeout with a ceiling of two: Retry, Retry, Fallback
C37_Witness ==
    /\ max_retries = 2
    /\ analysis.error = <<"Timeout">>
    /\ strategies = <<RETRY, RETRY, FALLBACK>>
    /\ analysis.attempt_count = 3

-----------------------------------------------------------------------------
\* the candidates of the reflect call so far: the result it was given, then what
\* execute_fn returned
Candidates == <<reflection.result>> \o produced

\* C38: reflect always terminates for max_retries >= 0: it asks the evaluator at most
\* max_retries + 1 times, having returned once it has asked that often, and calls
\* execute_fn at most max_retries times and never after the last evaluation; the
\* final_result it returns is the candidate the most recent evaluator call examined,
\* and feedback_history has length retry_count when approved and retry_count + 1 when
\* not approved.
C38_ReflectIsBounded ==
    /\ Len(asked) <= loop.max_retries + 1
    /\ Len(produced) <= loop.max_retries
    /\ Len(asked) = loop.max_retries + 1 => reflection.pc = "returned"
    /\ reflection.pc = "loop" => Len(produced) = Len(asked)
    /\ reflection.pc = "returned" =>
          /\ Len(asked) >= 1
          /\ Len(produced) = Len(asked) - 1
          /\ Returned.final_result = Candidates[Len(asked)]
          /\ Len(Returned.feedback_history) =
                IF Returned.approved THEN Returned.retry_count ELSE Returned.retry_count + 1

\* max_retries = 2 and three rejections: three evaluations, two improvements, the
\* second improvement returned
C38_Witness ==
    /\ loop.max_retries = 2
    /\ reflection.pc = "returned"
    /\ Len(asked) = 3
    /\ produced = <<"Attempt 1", "Attempt 2">>
    /\ ~Returned.approved
    /\ Returned.retry_count = 2
    /\ Returned.final_result = "Attempt 2"
    /\ Len(Returned.feedback_history) = 3

-----------------------------------------------------------------------------
\* the replies that expose no message: no msgs attribute, or an empty msgs
SilentResponses == {Response(FALSE, <<>>), Response(TRUE, <<>>)}

\* C39: an evaluator reply that exposes no reply messages yields empty feedback and is
\* treated as approval: reflect returns approved = true for the current candidate at
\* that attempt, with nothing appended to feedback_history and without calling
\* execute_fn.
C39_SilenceApproves ==
    [][\A response \in SilentResponses, value \in Improvements :
          Attempt(response, value) =>
              /\ feedback_of(response) = <<>>
              /\ reflection'.pc = "returned"
              /\ reflection'.returned =
                    <<ReflectionResult(TRUE, reflection.retry, reflection.current_result,
                                       reflection.feedback_history)>>
              /\ produced' = produced]_vars

\* one rejection, one improvement, then a reply without messages: approved at the
\* second attempt with the improved result and the one feedback
C39_Witness ==
    /\ Len(asked) = 2
    /\ needs_improvement(asked[1])
    /\ asked[2] = <<>>
    /\ reflection.pc = "returned"
    /\ Returned = ReflectionResult(TRUE, 1, "Attempt 1", <<asked[1]>>)
    /\ produced = <<"Attempt 1">>

-----------------------------------------------------------------------------
\* what a step leaves alone if all it may touch is the status and the result of node n
OnlyTouches(n) ==
    /\ root' = root
    /\ DOMAIN nodes' = DOMAIN nodes
    /\ \A i \in DOMAIN nodes :
          /\ nodes'[i].id = nodes[i].id
          /\ nodes'[i].content = nodes[i].content
          /\ nodes'[i].agent = nodes[i].agent
          /\ nodes'[i].depends_on = nodes[i].depends_on
          /\ nodes[i].id # n => nodes'[i] = nodes[i]

\* no node's result changes
ResultsKept == \A i \in DOMAIN nodes : nodes'[i].result = nodes[i].result

\* C40: frame of the status setters: mark_running, mark_complete and mark_failed on
\* node id n change only n's status (and, for mark_complete, n's result); they leave
\* root, the node set, n's content, agent and depends_on and every other node
\* unchanged, and mark_running and mark_failed leave n's result unchanged, so that a
\* result is only written by mark_complete.
C40_SettersTouchOnlyTheirNode ==
    [][/\ lastOp'.op \in DOMAIN StatusSet => OnlyTouches(lastOp'.id)
       /\ lastOp'.op \in {"mark_running", "mark_failed"} => ResultsKept
       /\ lastOp'.op = "mark_complete" =>
             \A i \in DOMAIN nodes :
                 nodes'[i].result = IF nodes[i].id = lastOp'.id THEN lastOp'.result
                                    ELSE nodes[i].result]_vars

\* mark_failed on a node that was Completed with result "r1": Failed, the result kept
C40_Witness ==
    /\ lastOp.op = "mark_failed"
    /\ lastOp.before = <<COMPLETED, "r1">>
    /\ DictGet(nodes, lastOp.id).status = FAILED
    /\ DictGet(nodes, lastOp.id).result = "r1"
    /\ \E i \in DOMAIN nodes : nodes[i].id # lastOp.id /\ nodes[i].status = RUNNING

====
